---------------------------- MODULE Spec2Model ----------------------------
(***************************************************************************)
(* A model of elib's scheduler/timer core: the task registry (kernel),     *)
(* the task / manual_task wrappers, the virtual system clock, the timer    *)
(* pool with its handles, and the process_all() driver.                    *)
(*                                                                         *)
(* Task objects are identified by their address (the registry stores raw   *)
(* pointers); timers by their slot index in the pool.                      *)
(***************************************************************************)
EXTENDS Integers, Sequences, FiniteSets, TLC

(***************************************************************************)
(* Bounds of the model.                                                    *)
(***************************************************************************)
\* size of the task registry (max_task_num + max_event_loop_num in the code)
task_max_num == 2
\* number of distinct storage addresses a task object can live at
NumAddr == 3
\* length of the window of remembered dispatches
WindowLen == 3
\* size of the timer pool (config::max_timer_num in the code)
max_timer_num == 2
\* number of timer handle objects (elib::time::timer) the application holds
NumHandles == 2
\* the modulus of the tick counter: 2^32 in the code (system_clock_rep is
\* std::uint32_t), scaled down so that the counter wraps within a run
TickMod == 4

NULL == 0
Addr == 1 .. NumAddr
TaskSlots == 0 .. (task_max_num - 1)

\* timer.cpp: empty_timer_id = numeric_limits<id_type>::max(), 2^32 - 1 in the code;
\* here the largest integer TLC holds: all that is used is that it lies outside the pool
empty_timer_id == 2147483647
TimerSlots == 0 .. (max_timer_num - 1)
Handles == 1 .. NumHandles
\* the intervals timers are given, in ticks
Intervals == {0, 1, 2}
PositiveIntervals == Intervals \ {0}
\* on_timeout values: the empty std::function and two callables
NoCallback == "empty"
Callbacks == {NoCallback, "cb1", "cb2"}

\* event_loop<Event, EventQueueSize>: the capacity of the event queue
EventQueueSize == 2
QueueIndex == 0 .. EventQueueSize - 1
\* config.h: event::config::max_event_per_call_num
max_event_per_call_num == 25
\* the value of a value-initialised Event, the events the application pushes
\* and the event a handler pushes
DefaultEvent == "default"
Events == {"e1", "e2"}
Reply == "r"
\* handler_type values: event_loop::empty_handler, a handler that only takes
\* the event, a handler that pushes Reply into its own event loop, and the
\* std::function that holds no target
empty_handler == "empty_handler"
NullHandler == "null"
Handlers == {empty_handler, "take", "repush", NullHandler}

VARIABLES
  tasks,          \* kernel.cpp `tasks`: slot index -> address of a task, or NULL
  current_index,  \* kernel.cpp process_tasks(): static current_index
  objKind,        \* address -> "none" | "task" | "manual": the object living there
  objMoved,       \* address -> the object there is a moved-from object
  runLog,         \* addresses whose run() the last process_tasks() call invoked
  recent,         \* dispatches since the registry was last modified (a window)
  hookCalled,     \* the last operation invoked elib::onError
  lastOp,         \* the last operation, with its arguments
  sys_clock_tick, \* system_clock.cpp: sys_clock_tick
  timers,         \* timer.cpp `timers`: slot index -> timer_handle
  invalid,        \* timer.cpp get_handle(): static timer_handle invalid
  curr_index,     \* timer.cpp process_timers(): static curr_index
  hLive,          \* handle -> a timer object exists
  hId,            \* handle -> timer::id_
  cbLog,          \* slots whose callback the last process_timers() call invoked
  dueBefore,      \* slots that were due when the last process_timers() call began
  hist,           \* slot -> history of its current registration (see NewHist)
  pending,        \* process_timers() calls the driver owes before the next tick
  callLog,        \* the callbacks and run() bodies of the last process_all(), in order
  loops,          \* address -> the members of the event_loop living there
  delivered,      \* <<address, handler, event>> of each handler call of the last operation
  ret,            \* what the last push() or has_passed() returned
  arg,            \* the event or handler the last event_loop operation was given
  buffers         \* address -> the members of the circular_buffer living there

kernelVars == <<tasks, current_index, objKind, objMoved, runLog, recent>>
timerVars == <<sys_clock_tick, timers, invalid, curr_index, hLive, hId, cbLog,
               dueBefore, hist, pending>>
loopVars == <<loops, delivered, ret, arg, buffers>>
vars == <<tasks, current_index, objKind, objMoved, runLog, recent, hookCalled, lastOp,
          sys_clock_tick, timers, invalid, curr_index, hLive, hId, cbLog,
          dueBefore, hist, pending, callLog, loops, delivered, ret, arg, buffers>>

(***************************************************************************)
(* kernel.cpp                                                              *)
(***************************************************************************)
Occupied(ts) == {i \in TaskSlots : ts[i] # NULL}
SlotsOf(ts, a) == {i \in TaskSlots : ts[i] = a}
Registered(ts) == {ts[i] : i \in Occupied(ts)}
MinOf(S) == CHOOSE x \in S : \A y \in S : x <= y

\* unregister_task that leaves the slot as it is
unregister_task_keep(ts, a) == ts

\* register_task that evicts slot 0 when the table is full
register_task_evict(ts, a) ==
  IF SlotsOf(ts, a) # {}
    THEN [tasks |-> ts, ok |-> TRUE]
    ELSE LET free == {i \in TaskSlots : ts[i] = NULL}
         IN  [tasks |-> [ts EXCEPT ![IF free # {} THEN MinOf(free) ELSE 0] = a],
              ok |-> TRUE]

\* register_task that takes the free slot of the highest index
register_task_lastfree(ts, a) ==
  IF SlotsOf(ts, a) # {}
    THEN [tasks |-> ts, ok |-> TRUE]
    ELSE LET free == {i \in TaskSlots : ts[i] = NULL}
         IN  IF free # {}
               THEN [tasks |-> [ts EXCEPT ![CHOOSE i \in free : \A k \in free : k <= i] = a],
                     ok |-> TRUE]
               ELSE [tasks |-> ts, ok |-> FALSE]

\* register_task without the duplicate check (the first design of the registry)
register_task_nodup(ts, a) ==
  LET free == {i \in TaskSlots : ts[i] = NULL}
  IN  IF free # {}
        THEN [tasks |-> [ts EXCEPT ![MinOf(free)] = a], ok |-> TRUE]
        ELSE [tasks |-> ts, ok |-> FALSE]

register_task(ts, a) ==
  IF SlotsOf(ts, a) # {}
    THEN [tasks |-> ts, ok |-> TRUE]
    ELSE LET free == {i \in TaskSlots : ts[i] = NULL}
         IN  IF free # {}
               THEN [tasks |-> [ts EXCEPT ![MinOf(free)] = a], ok |-> TRUE]
               ELSE [tasks |-> ts, ok |-> FALSE]

unregister_task(ts, a) ==
  IF SlotsOf(ts, a) # {}
    THEN [ts EXCEPT ![MinOf(SlotsOf(ts, a))] = NULL]
    ELSE ts

\* a move done as unregister + register instead of a pointer patch
move_task_reregister(ts, from, to) ==
  IF SlotsOf(ts, from) # {}
    THEN register_task(unregister_task(ts, from), to).tasks
    ELSE ts

move_task(ts, from, to) ==
  IF SlotsOf(ts, from) # {}
    THEN [ts EXCEPT ![MinOf(SlotsOf(ts, from))] = to]
    ELSE ts

NextIndex(ci) == IF ci + 1 >= task_max_num THEN 0 ELSE ci + 1

\* the scan without the early return: every occupied slot of the revolution runs
RECURSIVE process_tasks_noreturn(_, _, _)
process_tasks_noreturn(ts, ci, init) ==
  LET task == ts[ci]
      nxt  == NextIndex(ci)
      rest == IF nxt # init THEN process_tasks_noreturn(ts, nxt, init)
                            ELSE [cursor |-> nxt, ran |-> <<>>]
  IN  [cursor |-> rest.cursor,
       ran |-> (IF task # NULL THEN <<task>> ELSE <<>>) \o rest.ran]

\* the scan with a cursor that is not persisted past the dispatched slot
RECURSIVE process_tasks_nocursor(_, _, _)
process_tasks_nocursor(ts, ci, init) ==
  LET task == ts[ci]
      nxt  == NextIndex(ci)
  IN  IF task # NULL
        THEN [cursor |-> init, ran |-> <<task>>]
        ELSE IF nxt # init
               THEN process_tasks_nocursor(ts, nxt, init)
               ELSE [cursor |-> nxt, ran |-> <<>>]

\* the slots the do-while loop of process_tasks() reads, in order
RECURSIVE tasks_inspected(_, _, _)
tasks_inspected(ts, ci, init) ==
  LET nxt == NextIndex(ci)
  IN  IF ts[ci] # NULL \/ nxt = init
        THEN <<ci>>
        ELSE <<ci>> \o tasks_inspected(ts, nxt, init)

\* the do-while loop of process_tasks(): the cursor it leaves and the run() it calls
RECURSIVE process_tasks_scan(_, _, _)
process_tasks_scan(ts, ci, init) ==
  LET task == ts[ci]
      nxt  == NextIndex(ci)
  IN  IF task # NULL
        THEN [cursor |-> nxt, ran |-> <<task>>]
        ELSE IF nxt # init
               THEN process_tasks_scan(ts, nxt, init)
               ELSE [cursor |-> nxt, ran |-> <<>>]

(***************************************************************************)
(* The window of dispatches since the registry last changed.               *)
(***************************************************************************)
Window(s) == IF Len(s) > WindowLen THEN SubSeq(s, Len(s) - WindowLen + 1, Len(s)) ELSE s
RecentAfter(ts2, ran) == IF ts2 # tasks THEN <<>> ELSE Window(recent \o ran)

(***************************************************************************)
(* task.cpp: task (RAII) and manual_task                                   *)
(***************************************************************************)
\* the effect of a registry operation that dispatches nothing
RegistryOp(ts2, op, hook) ==
  /\ tasks' = ts2
  /\ recent' = RecentAfter(ts2, <<>>)
  /\ runLog' = <<>>
  /\ hookCalled' = hook
  /\ lastOp' = op
  /\ UNCHANGED <<current_index, timerVars, callLog, loopVars>>

\* task::task()
TaskCtor(a) ==
  /\ objKind[a] = "none"
  /\ LET r == register_task(tasks, a)
     IN  /\ objKind' = [objKind EXCEPT ![a] = "task"]
         /\ objMoved' = [objMoved EXCEPT ![a] = FALSE]
         /\ RegistryOp(r.tasks, <<"task_ctor", a, a>>, ~r.ok)

\* manual_task::manual_task() = default
ManualCtor(a) ==
  /\ objKind[a] = "none"
  /\ objKind' = [objKind EXCEPT ![a] = "manual"]
  /\ objMoved' = [objMoved EXCEPT ![a] = FALSE]
  /\ RegistryOp(tasks, <<"manual_ctor", a, a>>, FALSE)

\* task::~task() and manual_task::~manual_task()
TaskDtor(a) ==
  /\ objKind[a] # "none"
  /\ objKind' = [objKind EXCEPT ![a] = "none"]
  /\ objMoved' = [objMoved EXCEPT ![a] = FALSE]
  /\ RegistryOp(unregister_task(tasks, a), <<"dtor", a, a>>, FALSE)

\* task::task(task&&) and manual_task::manual_task(manual_task&&): a new object
\* at address `to` is constructed from the object at `from`
TaskMoveCtor(from, to) ==
  /\ objKind[from] # "none"
  /\ objKind[to] = "none"
  /\ objKind' = [objKind EXCEPT ![to] = objKind[from]]
  /\ objMoved' = [objMoved EXCEPT ![from] = TRUE, ![to] = FALSE]
  /\ RegistryOp(move_task(tasks, from, to), <<"move_ctor", from, to>>, FALSE)

\* task::operator=(task&&) and manual_task::operator=(manual_task&&):
\* the object at `to` is assigned from the object at `from`
TaskMoveAssign(from, to) ==
  /\ objKind[from] # "none"
  /\ objKind[to] = objKind[from]
  /\ IF to # from
       THEN /\ objMoved' = [objMoved EXCEPT ![from] = TRUE, ![to] = objMoved[from]]
            /\ RegistryOp(move_task(unregister_task(tasks, to), from, to),
                          <<"move_assign", from, to>>, FALSE)
       ELSE /\ objMoved' = objMoved
            /\ RegistryOp(tasks, <<"move_assign", from, to>>, FALSE)
  /\ UNCHANGED objKind

\* manual_task::start()
ManualStart(a) ==
  /\ objKind[a] = "manual"
  /\ LET r == register_task(tasks, a)
     IN  /\ objMoved' = [objMoved EXCEPT ![a] = IF r.ok THEN FALSE ELSE @]
         /\ RegistryOp(r.tasks, <<"start", a, a>>, FALSE)
  /\ UNCHANGED objKind

\* manual_task::stop()
ManualStop(a) ==
  /\ objKind[a] = "manual"
  /\ RegistryOp(unregister_task(tasks, a), <<"stop", a, a>>, FALSE)
  /\ UNCHANGED <<objKind, objMoved>>

(***************************************************************************)
(* What a run() body may do to the registry before it returns: nothing,    *)
(* or start()/stop() a manual_task (its own object included).              *)
(***************************************************************************)
RunEffects(ts, ran) ==
  IF ran = <<>>
    THEN {[tasks |-> ts, moved |-> objMoved]}
    ELSE {[tasks |-> ts, moved |-> objMoved]}
         \cup {[tasks |-> unregister_task(ts, m), moved |-> objMoved] :
                 m \in {x \in Addr : objKind[x] = "manual"}}
         \cup {[tasks |-> register_task(ts, m).tasks,
                moved |-> [objMoved EXCEPT ![m] = IF register_task(ts, m).ok THEN FALSE ELSE @]] :
                 m \in {x \in Addr : objKind[x] = "manual"}}

\* the body of kernel::process_tasks(), with what the dispatched run() does
ProcessTasksBody ==
  LET r == process_tasks_scan(tasks, current_index, current_index)
  IN  /\ current_index' = r.cursor
      /\ runLog' = r.ran
      /\ \E e \in RunEffects(tasks, r.ran) :
           /\ tasks' = e.tasks
           /\ objMoved' = e.moved
           /\ recent' = RecentAfter(e.tasks, r.ran)
      /\ UNCHANGED objKind

\* kernel::process_tasks()
ProcessTasks ==
  /\ ProcessTasksBody
  /\ hookCalled' = FALSE
  /\ lastOp' = <<"process_tasks", 0, 0>>
  /\ UNCHANGED <<timerVars, callLog, loopVars>>

(***************************************************************************)
(* system_clock.cpp and elapsed_timer.h                                    *)
(***************************************************************************)
\* system_clock::increment(): ++sys_clock_tick on an unsigned counter
increment(tick) == (tick + 1) % TickMod

\* elapsed_timer::elapsed(): Clock::now() - start_point_, an unsigned difference
elapsed(start_point, now) == (now - start_point) % TickMod

\* elapsed_timer::elapsed(duration) with the comparison turned round
elapsed_strict(start_point, now, interval) == elapsed(start_point, now) > interval % TickMod

\* elapsed_timer::elapsed(duration): the interval converts to the clock's duration
elapsed_for(start_point, now, interval) == elapsed(start_point, now) >= interval % TickMod

\* has_passed() on a difference that is not reduced to the counter's range
has_passed_nowrap(start, now, ticks) == now - start >= ticks

\* system_clock::has_passed(start, ticks), and has_passed(duration_from) with
\* its start and interval: the difference now() - start is taken in the
\* unsigned representation of the counter
has_passed(start, now, ticks) == (now - start) % TickMod >= ticks

(***************************************************************************)
(* timer.cpp: the pool                                                     *)
(***************************************************************************)
\* timer_handle{}
DefaultTimer ==
  [registered |-> FALSE, active |-> FALSE, single_shot |-> FALSE, interval |-> 0,
   start_point |-> 0, elapsed_active |-> FALSE, callback |-> NoCallback]

\* the firing condition without the test of `active`
Due_inactive(t, now) ==
  /\ t.registered
  /\ t.callback # NoCallback
  /\ elapsed_for(t.start_point, now, t.interval)

\* the condition under which process_timers() fires a slot
Due(t, now) ==
  /\ t.registered
  /\ t.callback # NoCallback
  /\ t.active
  /\ elapsed_for(t.start_point, now, t.interval)

DueSlots(tm, now) == {i \in TimerSlots : Due(tm[i], now)}

\* registerTimerImpl() that takes slot 0 over when no slot is free
registerTimerImpl_overwrite(tm, interval, callback, singleShot) ==
  LET free == {i \in TimerSlots : ~tm[i].registered}
      i    == IF free # {} THEN MinOf(free) ELSE 0
  IN  [timers |-> [tm EXCEPT ![i].callback = callback,
                             ![i].interval = interval,
                             ![i].single_shot = singleShot,
                             ![i].registered = TRUE],
       id |-> i]

\* registerTimerImpl(): the first slot that is not registered takes the timer
registerTimerImpl(tm, interval, callback, singleShot) ==
  LET free == {i \in TimerSlots : ~tm[i].registered}
  IN  IF free # {}
        THEN LET i == MinOf(free)
             IN  [timers |-> [tm EXCEPT ![i].callback = callback,
                                        ![i].interval = interval,
                                        ![i].single_shot = singleShot,
                                        ![i].registered = TRUE],
                  id |-> i]
        ELSE [timers |-> tm, id |-> empty_timer_id]

\* a firing that re-arms from the tick the timer was due at, not from now
fire_catchup(t, now) ==
  [t EXCEPT !.start_point = (t.start_point + t.interval) % TickMod,
            !.registered = IF t.single_shot THEN FALSE ELSE @,
            !.active = IF t.single_shot THEN FALSE ELSE @]

\* a firing that re-arms a single shot like a periodic timer
fire_keep(t, now) == [t EXCEPT !.start_point = now]

\* what process_timers() does to the slot it fires, after the callback returned
fire(t, now) ==
  [t EXCEPT !.start_point = now,
            !.registered = IF t.single_shot THEN FALSE ELSE @,
            !.active = IF t.single_shot THEN FALSE ELSE @]

\* a cursor that never advances
NextTimerIndex_stay(ci) == ci

\* ++curr_index, back to 0 at the end of the pool
NextTimerIndex(ci) == IF ci + 1 >= max_timer_num THEN 0 ELSE ci + 1

\* the scan without the early return: every due slot of the revolution fires
RECURSIVE process_timers_noreturn(_, _, _, _)
process_timers_noreturn(tm, ci, init, now) ==
  LET nxt  == NextTimerIndex(ci)
      tm2  == IF Due(tm[ci], now) THEN [tm EXCEPT ![ci] = fire(tm[ci], now)] ELSE tm
      rest == IF nxt # init THEN process_timers_noreturn(tm2, nxt, init, now)
                            ELSE [timers |-> tm2, cursor |-> nxt, fired |-> <<>>]
  IN  [timers |-> rest.timers, cursor |-> rest.cursor,
       fired |-> (IF Due(tm[ci], now) THEN <<ci>> ELSE <<>>) \o rest.fired]

\* the scan with a cursor that is not persisted past the fired slot
RECURSIVE process_timers_nocursor(_, _, _, _)
process_timers_nocursor(tm, ci, init, now) ==
  LET nxt == NextTimerIndex(ci)
  IN  IF Due(tm[ci], now)
        THEN [timers |-> [tm EXCEPT ![ci] = fire(tm[ci], now)],
              cursor |-> init, fired |-> <<ci>>]
        ELSE IF nxt # init
               THEN process_timers_nocursor(tm, nxt, init, now)
               ELSE [timers |-> tm, cursor |-> nxt, fired |-> <<>>]

\* the slots the do-while loop of process_timers() reads, in order
RECURSIVE timers_inspected(_, _, _, _)
timers_inspected(tm, ci, init, now) ==
  LET nxt == NextTimerIndex(ci)
  IN  IF Due(tm[ci], now) \/ nxt = init
        THEN <<ci>>
        ELSE <<ci>> \o timers_inspected(tm, nxt, init, now)

\* the do-while loop of process_timers(): the pool and the cursor it leaves, and
\* the slots whose callback it invokes
RECURSIVE process_timers_scan(_, _, _, _)
process_timers_scan(tm, ci, init, now) ==
  LET nxt == NextTimerIndex(ci)
  IN  IF Due(tm[ci], now)
        THEN [timers |-> [tm EXCEPT ![ci] = fire(tm[ci], now)],
              cursor |-> nxt, fired |-> <<ci>>]
        ELSE IF nxt # init
               THEN process_timers_scan(tm, nxt, init, now)
               ELSE [timers |-> tm, cursor |-> nxt, fired |-> <<>>]

(***************************************************************************)
(* History kept for each slot's current registration: the ticks since it   *)
(* was armed (registered as a single shot, started, or fired), whether it  *)
(* ever fired before its interval had passed since it was armed, and how   *)
(* often it fired.                                                         *)
(***************************************************************************)
AgeCap == Cardinality(Intervals)
Older(a) == IF a < AgeCap THEN a + 1 ELSE a
SeqSet(s) == {s[k] : k \in 1 .. Len(s)}
NewHist == [age |-> 0, early |-> FALSE, count |-> 0]
Armed(hs, id) == [i \in TimerSlots |-> IF i = id THEN [hs[i] EXCEPT !.age = 0] ELSE hs[i]]
Fresh(hs, id) == [i \in TimerSlots |-> IF i = id THEN NewHist ELSE hs[i]]
Fired(hs, tm, f) ==
  [i \in TimerSlots |->
     IF i \in f
       THEN [age |-> 0,
             early |-> hs[i].early \/ hs[i].age < tm[i].interval,
             count |-> IF hs[i].count < 2 THEN hs[i].count + 1 ELSE 2]
       ELSE hs[i]]

\* a timer operation that fires nothing and leaves the kernel alone
TimerOp(op, hook) ==
  /\ lastOp' = op
  /\ hookCalled' = hook
  /\ cbLog' = <<>>
  /\ dueBefore' = {}
  /\ UNCHANGED <<kernelVars, callLog, curr_index, loopVars>>

(***************************************************************************)
(* The clock                                                               *)
(***************************************************************************)
\* system_clock::increment(), after which the driver owes `calls` calls of
\* process_timers() before the next tick
Increment(calls) ==
  /\ pending = 0
  /\ sys_clock_tick' = increment(sys_clock_tick)
  /\ hist' = [i \in TimerSlots |-> [hist[i] EXCEPT !.age = Older(@)]]
  /\ pending' = calls
  /\ TimerOp(<<"increment", 0, 0>>, FALSE)
  /\ UNCHANGED <<timers, invalid, hLive, hId>>

(***************************************************************************)
(* timer.cpp: the static operations                                        *)
(***************************************************************************)
\* timer::register_timer(interval, callback), the result held by handle h
RegisterTimer(h, interval, callback) ==
  /\ ~hLive[h]
  /\ LET r == registerTimerImpl(timers, interval, callback, FALSE)
     IN  /\ timers' = r.timers
         /\ hLive' = [hLive EXCEPT ![h] = TRUE]
         /\ hId' = [hId EXCEPT ![h] = r.id]
         /\ hist' = Fresh(hist, r.id)
         /\ TimerOp(<<"register_timer", h, 0>>, r.id = empty_timer_id)
  /\ UNCHANGED <<sys_clock_tick, invalid, pending>>

\* timer::single_shot(interval, callback)
SingleShot(interval, callback) ==
  /\ LET r == registerTimerImpl(timers, interval, callback, TRUE)
     IN  /\ timers' = IF r.id # empty_timer_id
                        THEN [r.timers EXCEPT ![r.id].active = TRUE]
                        ELSE r.timers
         /\ hist' = Fresh(hist, r.id)
         /\ TimerOp(<<"single_shot", 0, 0>>, r.id = empty_timer_id)
  /\ UNCHANGED <<sys_clock_tick, invalid, hLive, hId, pending>>

\* the body of timer::process_timers()
ProcessTimersBody ==
  LET r == process_timers_scan(timers, curr_index, curr_index, sys_clock_tick)
  IN  /\ timers' = r.timers
      /\ curr_index' = r.cursor
      /\ cbLog' = r.fired
      /\ dueBefore' = DueSlots(timers, sys_clock_tick)
      /\ hist' = Fired(hist, timers, SeqSet(r.fired))
      /\ pending' = IF pending > 0 THEN pending - 1 ELSE 0
      /\ UNCHANGED <<sys_clock_tick, invalid, hLive, hId>>

\* timer::process_timers()
ProcessTimers ==
  /\ ProcessTimersBody
  /\ lastOp' = <<"process_timers", 0, 0>>
  /\ hookCalled' = FALSE
  /\ UNCHANGED <<kernelVars, callLog, loopVars>>

\* the ticks by which the firing of the call that is about to run is late:
\* the ticks since the slot it fires was armed, less the slot's interval
Lateness ==
  LET f == process_timers_scan(timers, curr_index, curr_index, sys_clock_tick).fired
  IN  IF f # <<>> /\ hist[f[1]].age > timers[f[1]].interval
        THEN hist[f[1]].age - timers[f[1]].interval
        ELSE 0

\* timer::process_timers() called at any time; the step records how late the
\* firing was
ProcessTimersLate ==
  /\ ProcessTimersBody
  /\ lastOp' = <<"process_timers", Lateness, 0>>
  /\ hookCalled' = FALSE
  /\ UNCHANGED <<kernelVars, callLog, loopVars>>

(***************************************************************************)
(* timer.cpp: the handle (elib::time::timer)                               *)
(***************************************************************************)
\* get_handle(id): the pool's slot, or the static `invalid`, marked not
\* registered, when the id is out of range
get_handle(id) ==
  IF id \in TimerSlots THEN timers[id] ELSE [invalid EXCEPT !.registered = FALSE]

\* assignments through the reference get_handle(id) returned
WriteSlot(id, t) ==
  IF id \in TimerSlots
    THEN /\ timers' = [timers EXCEPT ![id] = t]
         /\ invalid' = invalid
    ELSE /\ timers' = timers
         /\ invalid' = t

\* timer::start()
TimerStart(h) ==
  /\ hLive[h]
  /\ WriteSlot(hId[h], [get_handle(hId[h]) EXCEPT !.active = TRUE,
                                                   !.elapsed_active = TRUE,
                                                   !.start_point = sys_clock_tick])
  /\ hist' = Armed(hist, hId[h])
  /\ TimerOp(<<"timer_start", h, 0>>, hId[h] \notin TimerSlots)
  /\ UNCHANGED <<sys_clock_tick, hLive, hId, pending>>

\* timer::stop()
TimerStop(h) ==
  /\ hLive[h]
  /\ WriteSlot(hId[h], [get_handle(hId[h]) EXCEPT !.active = FALSE])
  /\ TimerOp(<<"timer_stop", h, 0>>, hId[h] \notin TimerSlots)
  /\ UNCHANGED <<sys_clock_tick, hLive, hId, hist, pending>>

\* set_interval() that also stops the timer
set_interval_stop(t, interval) == [t EXCEPT !.interval = interval, !.active = FALSE]

\* the assignment of timer::set_interval() to the handle it is given
set_interval(t, interval) == [t EXCEPT !.interval = interval]

\* the assignment of timer::set_callback() to the handle it is given
set_callback(t, callback) == [t EXCEPT !.callback = callback]

\* timer::set_interval(interval): no test of valid()
TimerSetInterval(h, interval) ==
  /\ hLive[h]
  /\ WriteSlot(hId[h], set_interval(get_handle(hId[h]), interval))
  /\ TimerOp(<<"set_interval", h, 0>>, hId[h] \notin TimerSlots)
  /\ UNCHANGED <<sys_clock_tick, hLive, hId, hist, pending>>

\* timer::set_callback(callback): only on a valid handle
TimerSetCallback(h, callback) ==
  /\ hLive[h]
  /\ IF hId[h] # empty_timer_id /\ get_handle(hId[h]).registered
       THEN WriteSlot(hId[h], set_callback(get_handle(hId[h]), callback))
       ELSE UNCHANGED <<timers, invalid>>
  /\ TimerOp(<<"set_callback", h, 0>>, FALSE)
  /\ UNCHANGED <<sys_clock_tick, hLive, hId, hist, pending>>

\* system_clock::has_passed(start, ticks), asked by an application that noted
\* now() when it started the timer of handle h and passes the timer's interval
HasPassed(h) ==
  /\ hLive[h]
  /\ hId[h] \in TimerSlots
  /\ ret' = has_passed(timers[hId[h]].start_point, sys_clock_tick, timers[hId[h]].interval)
  /\ lastOp' = <<"has_passed", h, 0>>
  /\ hookCalled' = FALSE
  /\ UNCHANGED <<kernelVars, timerVars, callLog, loops, delivered, arg, buffers>>

\* unregister_timer(id) that only clears the slot's registered flag
unregister_timer_flag(tm, id) ==
  IF id \in TimerSlots THEN [tm EXCEPT ![id].registered = FALSE] ELSE tm

\* unregister_timer(id)
unregister_timer(tm, id) ==
  IF id \in TimerSlots THEN [tm EXCEPT ![id] = DefaultTimer] ELSE tm

\* timer::unregister()
TimerUnregister(h) ==
  /\ hLive[h]
  /\ timers' = unregister_timer(timers, hId[h])
  /\ hId' = [hId EXCEPT ![h] = empty_timer_id]
  /\ TimerOp(<<"timer_unregister", h, 0>>, FALSE)
  /\ UNCHANGED <<sys_clock_tick, invalid, hLive, hist, pending>>

\* timer::~timer()
TimerDtor(h) ==
  /\ hLive[h]
  /\ timers' = unregister_timer(timers, hId[h])
  /\ hId' = [hId EXCEPT ![h] = empty_timer_id]
  /\ hLive' = [hLive EXCEPT ![h] = FALSE]
  /\ TimerOp(<<"timer_dtor", h, 0>>, FALSE)
  /\ UNCHANGED <<sys_clock_tick, invalid, hist, pending>>

\* timer::unregister_timers(): every slot becomes timer_handle{}; the handles
\* keep their ids
UnregisterTimers ==
  /\ timers' = [i \in TimerSlots |-> DefaultTimer]
  /\ hist' = [i \in TimerSlots |-> NewHist]
  /\ TimerOp(<<"unregister_timers", 0, 0>>, FALSE)
  /\ UNCHANGED <<sys_clock_tick, invalid, hLive, hId, pending>>

\* timer::timer(timer&& other): a new handle h2 is constructed from h1
TimerMoveCtor(h1, h2) ==
  /\ hLive[h1]
  /\ ~hLive[h2]
  /\ hLive' = [hLive EXCEPT ![h2] = TRUE]
  /\ hId' = [hId EXCEPT ![h2] = hId[h1], ![h1] = empty_timer_id]
  /\ TimerOp(<<"timer_move_ctor", h1, h2>>, FALSE)
  /\ UNCHANGED <<sys_clock_tick, timers, invalid, hist, pending>>

\* timer::operator=(timer&& other): the handle h2 is assigned from h1
TimerMoveAssign(h1, h2) ==
  /\ hLive[h1]
  /\ hLive[h2]
  /\ IF h1 # h2
       THEN /\ timers' = unregister_timer(timers, hId[h2])
            /\ hId' = [hId EXCEPT ![h2] = hId[h1], ![h1] = empty_timer_id]
       ELSE UNCHANGED <<timers, hId>>
  /\ TimerOp(<<"timer_move_assign", h1, h2>>, FALSE)
  /\ UNCHANGED <<sys_clock_tick, invalid, hLive, hist, pending>>

\* timer::valid()
valid(h) == hId[h] # empty_timer_id /\ get_handle(hId[h]).registered

\* timer::running()
running(h) == valid(h) /\ get_handle(hId[h]).active

\* timer::interval()
interval(h) == get_handle(hId[h]).interval

\* timer::timer(): a handle that holds the sentinel id
TimerCtor(h) ==
  /\ ~hLive[h]
  /\ hLive' = [hLive EXCEPT ![h] = TRUE]
  /\ hId' = [hId EXCEPT ![h] = empty_timer_id]
  /\ TimerOp(<<"timer_ctor", h, 0>>, FALSE)
  /\ UNCHANGED <<sys_clock_tick, timers, invalid, hist, pending>>

(***************************************************************************)
(* Callbacks that use the timer API. "cb_shot" arms a single shot of       *)
(* interval 0; "cb_rearm" is the callback of a periodic timer that first   *)
(* unregisters its own handle and then arms the single shot. Every other   *)
(* callback leaves the pool alone.                                         *)
(***************************************************************************)
ArmingCallbacks == {"cb_shot", "cb_rearm"}

\* timer::single_shot(interval, callback): the pool it leaves and the slot it
\* took, empty_timer_id when it returns false
single_shot(tm, iv, callback) ==
  LET r == registerTimerImpl(tm, iv, callback, TRUE)
  IN  [timers |-> IF r.id # empty_timer_id
                    THEN [r.timers EXCEPT ![r.id].active = TRUE]
                    ELSE r.timers,
       id |-> r.id]

\* what the callback stored in slot ci does when process_timers() invokes it:
\* the pool it leaves, whether it called single_shot() and the slot that call
\* took, and whether it unregistered the handle of its own timer
callback_body(tm, ci, callback) ==
  LET own == IF callback = "cb_rearm" THEN unregister_timer(tm, ci) ELSE tm
      r   == single_shot(own, 0, "cb1")
  IN  IF callback \in ArmingCallbacks
        THEN [timers |-> r.timers, called |-> 1, id |-> r.id,
              unregistered |-> callback = "cb_rearm"]
        ELSE [timers |-> tm, called |-> 0, id |-> 0, unregistered |-> FALSE]

\* the do-while loop of process_timers() when callbacks use the timer API:
\* curr_timer is a reference to the slot, read again after the callback
RECURSIVE process_timers_calling(_, _, _, _)
process_timers_calling(tm, ci, init, now) ==
  LET nxt == NextTimerIndex(ci)
      b   == callback_body(tm, ci, tm[ci].callback)
  IN  IF Due(tm[ci], now)
        THEN [timers |-> [b.timers EXCEPT ![ci] = fire(b.timers[ci], now)],
              cursor |-> nxt, fired |-> <<ci>>,
              called |-> b.called, id |-> b.id, unregistered |-> b.unregistered]
        ELSE IF nxt # init
               THEN process_timers_calling(tm, nxt, init, now)
               ELSE [timers |-> tm, cursor |-> nxt, fired |-> <<>>,
                     called |-> 0, id |-> 0, unregistered |-> FALSE]

\* timer::process_timers() with callbacks that use the timer API. The step
\* records whether the callback called single_shot() and the slot it took.
ProcessTimersCalling ==
  LET r == process_timers_calling(timers, curr_index, curr_index, sys_clock_tick)
  IN  /\ timers' = r.timers
      /\ curr_index' = r.cursor
      /\ cbLog' = r.fired
      /\ dueBefore' = DueSlots(timers, sys_clock_tick)
      /\ hist' = IF r.called = 1 /\ r.id # empty_timer_id
                   THEN Fresh(Fired(hist, timers, SeqSet(r.fired)), r.id)
                   ELSE Fired(hist, timers, SeqSet(r.fired))
      /\ hId' = [h \in Handles |->
                   IF r.unregistered /\ hLive[h] /\ hId[h] \in SeqSet(r.fired)
                     THEN empty_timer_id ELSE hId[h]]
      /\ pending' = IF pending > 0 THEN pending - 1 ELSE 0
      /\ lastOp' = <<"process_timers", r.called, r.id>>
      /\ hookCalled' = (r.called = 1 /\ r.id = empty_timer_id)
      /\ UNCHANGED <<sys_clock_tick, invalid, hLive, kernelVars, callLog, loopVars>>

InitTimers ==
  /\ sys_clock_tick = 0
  /\ timers = [i \in TimerSlots |-> DefaultTimer]
  /\ invalid = DefaultTimer
  /\ curr_index = 0
  /\ hLive = [h \in Handles |-> FALSE]
  /\ hId = [h \in Handles |-> empty_timer_id]
  /\ cbLog = <<>>
  /\ dueBefore = {}
  /\ hist = [i \in TimerSlots |-> NewHist]
  /\ pending = 0
  /\ callLog = <<>>

(***************************************************************************)
(* kernel.cpp: process_all()                                               *)
(***************************************************************************)
TimerEvents(fired) == [k \in 1 .. Len(fired) |-> <<"timer", fired[k]>>]
TaskEvents(ran) == [k \in 1 .. Len(ran) |-> <<"task", ran[k]>>]

\* process_all() with the two calls in the other order
process_all_tasks_first(tm, tci, now, tk, kci) ==
  LET t == process_timers_scan(tm, tci, tci, now)
      k == process_tasks_scan(tk, kci, kci)
  IN  [timers |-> t.timers, tcursor |-> t.cursor, fired |-> t.fired,
       kcursor |-> k.cursor, ran |-> k.ran,
       log |-> TaskEvents(k.ran) \o TimerEvents(t.fired)]

\* process_all() without the call of process_timers()
process_all_tasks_only(tm, tci, now, tk, kci) ==
  LET k == process_tasks_scan(tk, kci, kci)
  IN  [timers |-> tm, tcursor |-> tci, fired |-> <<>>,
       kcursor |-> k.cursor, ran |-> k.ran, log |-> TaskEvents(k.ran)]

\* process_all(): process_timers(), then process_tasks(); `log` is the order in
\* which the callbacks and the run() bodies are invoked
process_all(tm, tci, now, tk, kci) ==
  LET t == process_timers_scan(tm, tci, tci, now)
      k == process_tasks_scan(tk, kci, kci)
  IN  [timers |-> t.timers, tcursor |-> t.cursor, fired |-> t.fired,
       kcursor |-> k.cursor, ran |-> k.ran,
       log |-> TimerEvents(t.fired) \o TaskEvents(k.ran)]

\* kernel::process_all()
ProcessAll ==
  LET r == process_all(timers, curr_index, sys_clock_tick, tasks, current_index)
  IN  /\ timers' = r.timers
      /\ curr_index' = r.tcursor
      /\ cbLog' = r.fired
      /\ dueBefore' = DueSlots(timers, sys_clock_tick)
      /\ hist' = Fired(hist, timers, SeqSet(r.fired))
      /\ pending' = IF pending > 0 THEN pending - 1 ELSE 0
      /\ current_index' = r.kcursor
      /\ runLog' = r.ran
      /\ \E e \in RunEffects(tasks, r.ran) :
           /\ tasks' = e.tasks
           /\ objMoved' = e.moved
           /\ recent' = RecentAfter(e.tasks, r.ran)
      /\ callLog' = r.log
      /\ lastOp' = <<"process_all", 0, 0>>
      /\ hookCalled' = FALSE
      /\ UNCHANGED <<objKind, sys_clock_tick, invalid, hLive, hId, loopVars>>

(***************************************************************************)
(* circular_buffer.h: the members data_, first_, last_ (as offsets into    *)
(* data_) and size_                                                        *)
(***************************************************************************)
\* a default-constructed circular_buffer
EmptyBuffer ==
  [data |-> [i \in QueueIndex |-> DefaultEvent], first |-> 0, last |-> 0, size |-> 0]

\* detail::increment(): one cell on, from the last cell back to the first
buffer_increment(it) == IF it + 1 = EventQueueSize THEN 0 ELSE it + 1

full(b) == b.size = EventQueueSize
empty(b) == b.size = 0
front(b) == b.data[b.first]

\* push_back() that takes over the cell at last_ when the buffer is full
push_back_overwrite(b, value) ==
  [buffer |-> [b EXCEPT !.data[b.last] = value,
                        !.last = buffer_increment(b.last),
                        !.size = IF full(b) THEN @ ELSE @ + 1],
   ok |-> TRUE]

\* circular_buffer::push_back(value), and push(value) that forwards to it
push_back(b, value) ==
  IF full(b)
    THEN [buffer |-> b, ok |-> FALSE]
    ELSE [buffer |-> [b EXCEPT !.data[b.last] = value,
                               !.last = buffer_increment(b.last),
                               !.size = @ + 1],
          ok |-> TRUE]

\* pop_front() that gives up the newest element
pop_front_newest(b) ==
  IF empty(b)
    THEN [buffer |-> b, ok |-> FALSE]
    ELSE [buffer |-> [b EXCEPT !.last = IF b.last = 0 THEN EventQueueSize - 1
                                                       ELSE b.last - 1,
                               !.size = @ - 1],
          ok |-> TRUE]

\* circular_buffer::pop_front(), and pop() that forwards to it
pop_front(b) ==
  IF empty(b)
    THEN [buffer |-> b, ok |-> FALSE]
    ELSE [buffer |-> [b EXCEPT !.first = buffer_increment(b.first), !.size = @ - 1],
          ok |-> TRUE]

\* detail::decrement(): one cell back, from the first cell to the last
buffer_decrement(it) == IF it # 0 THEN it - 1 ELSE EventQueueSize - 1

\* circular_buffer::pop_back()
pop_back(b) ==
  IF empty(b)
    THEN [buffer |-> b, ok |-> FALSE]
    ELSE [buffer |-> [b EXCEPT !.last = buffer_decrement(b.last), !.size = @ - 1],
          ok |-> TRUE]

\* circular_buffer::push_front(value)
push_front(b, value) ==
  IF full(b)
    THEN [buffer |-> b, ok |-> FALSE]
    ELSE LET new_first == buffer_decrement(b.first)
         IN  [buffer |-> [b EXCEPT !.data[new_first] = value,
                                   !.first = new_first,
                                   !.size = @ + 1],
              ok |-> TRUE]

\* circular_buffer::push_over(value)
push_over(b, value) ==
  push_back(IF full(b) THEN pop_front(b).buffer ELSE b, value).buffer

\* circular_buffer::clear()
clear(b) == [b EXCEPT !.size = 0, !.first = 0, !.last = 0]

\* a move assignment that leaves the elements in the source
move_buffer_copy(dst, src) ==
  [dst |-> [data |-> dst.data, first |-> src.first, last |-> src.last, size |-> src.size],
   src |-> [src EXCEPT !.size = 0]]

\* circular_buffer::operator=(circular_buffer&&) for two distinct buffers:
\* clear(), the arrays and the sizes are swapped, and the destination takes
\* the source's offsets; the source keeps its own offsets
move_buffer(dst, src) ==
  [dst |-> [data |-> src.data, first |-> src.first, last |-> src.last, size |-> src.size],
   src |-> [src EXCEPT !.data = dst.data, !.size = 0]]

\* the elements begin() .. end() iterates over: size_ cells from first_ on
Contents(b) ==
  [k \in 1 .. b.size |-> b.data[(b.first + k - 1) % EventQueueSize]]

(***************************************************************************)
(* circular_buffer objects used on their own, at two addresses             *)
(***************************************************************************)
TwoBuffers == {1, 2}

\* an operation on the circular_buffer at address a: the members it leaves,
\* the value it was given and what it returned
BufferOp(bs, op, given, result) ==
  /\ buffers' = bs
  /\ lastOp' = op
  /\ arg' = given
  /\ ret' = result
  /\ hookCalled' = FALSE
  /\ UNCHANGED <<kernelVars, timerVars, callLog, loops, delivered>>

\* circular_buffer::circular_buffer(): a new buffer at address a
BufferCtor(a) ==
  BufferOp([buffers EXCEPT ![a] = EmptyBuffer], <<"buffer_ctor", a, a>>, "none", FALSE)

BufferPushBack(a, value) ==
  LET r == push_back(buffers[a], value)
  IN  BufferOp([buffers EXCEPT ![a] = r.buffer], <<"push_back", a, 0>>, value, r.ok)

BufferPushFront(a, value) ==
  LET r == push_front(buffers[a], value)
  IN  BufferOp([buffers EXCEPT ![a] = r.buffer], <<"push_front", a, 0>>, value, r.ok)

BufferPopFront(a) ==
  LET r == pop_front(buffers[a])
  IN  BufferOp([buffers EXCEPT ![a] = r.buffer], <<"pop_front", a, 0>>, "none", r.ok)

BufferPopBack(a) ==
  LET r == pop_back(buffers[a])
  IN  BufferOp([buffers EXCEPT ![a] = r.buffer], <<"pop_back", a, 0>>, "none", r.ok)

BufferPushOver(a, value) ==
  BufferOp([buffers EXCEPT ![a] = push_over(buffers[a], value)],
           <<"push_over", a, 0>>, value, TRUE)

BufferClear(a) ==
  BufferOp([buffers EXCEPT ![a] = clear(buffers[a])], <<"clear", a, 0>>, "none", FALSE)

\* circular_buffer(circular_buffer&& other): a new buffer at address `to`,
\* default-initialized and then move-assigned from the one at `from`
BufferMoveCtor(from, to) ==
  /\ to # from
  /\ LET m == move_buffer(EmptyBuffer, buffers[from])
     IN  BufferOp([buffers EXCEPT ![to] = m.dst, ![from] = m.src],
                  <<"buffer_move_ctor", from, to>>, "none", FALSE)

\* circular_buffer::operator=(circular_buffer&& other)
BufferMoveAssign(from, to) ==
  IF to # from
    THEN LET m == move_buffer(buffers[to], buffers[from])
         IN  BufferOp([buffers EXCEPT ![to] = m.dst, ![from] = m.src],
                      <<"buffer_move_assign", from, to>>, "none", FALSE)
    ELSE BufferOp(buffers, <<"buffer_move_assign", from, to>>, "none", FALSE)

(***************************************************************************)
(* event_loop.h                                                            *)
(***************************************************************************)
\* the members of a default-constructed event_loop
DefaultLoop ==
  [handler |-> empty_handler, max_events_per_call |-> 1, events |-> EmptyBuffer]

\* event_loop::set_handler(handler)
set_handler(l, handler) ==
  [l EXCEPT !.handler = IF handler # NullHandler THEN handler ELSE empty_handler]

\* std::clamp(v, lo, hi)
clamp(v, lo, hi) == IF v < lo THEN lo ELSE IF hi < v THEN hi ELSE v

\* set_max_events_per_call() that stores the count it is given
set_max_events_per_call_asis(l, count) == [l EXCEPT !.max_events_per_call = count]

\* event_loop::set_max_events_per_call(count)
set_max_events_per_call(l, count) ==
  [l EXCEPT !.max_events_per_call = clamp(count, 1, max_event_per_call_num)]

\* what the std::function moved from may hold afterwards: the standard leaves
\* it valid but unspecified, so it is empty or still holds its target
MovedFromHandler(handler) == {NullHandler, handler}

\* the queue after handler_(pending) returned: "repush" pushes Reply into the
\* event loop it serves
handler_call(handler, b) ==
  IF handler = "repush" THEN push_back(b, Reply).buffer ELSE b

\* the loop of run() that goes on while the count is not negative
RECURSIVE run_loop_offbyone(_, _)
run_loop_offbyone(l, count) ==
  IF count >= 0 /\ ~empty(l.events)
    THEN LET popped == pop_front(l.events).buffer
             rest   == IF l.handler = NullHandler
                         THEN [loop |-> [l EXCEPT !.events = popped], calls |-> <<>>]
                         ELSE run_loop_offbyone(
                                [l EXCEPT !.events = handler_call(l.handler, popped)],
                                count - 1)
         IN  [loop |-> rest.loop,
              calls |-> <<<<l.handler, front(l.events)>>>> \o rest.calls]
    ELSE [loop |-> l, calls |-> <<>>]

\* the loop of run() that calls the handler before it removes the event
RECURSIVE run_loop_late_pop(_, _)
run_loop_late_pop(l, count) ==
  IF count > 0 /\ ~empty(l.events)
    THEN LET called == handler_call(l.handler, l.events)
             rest   == IF l.handler = NullHandler
                         THEN [loop |-> l, calls |-> <<>>]
                         ELSE run_loop_late_pop(
                                [l EXCEPT !.events = pop_front(called).buffer], count - 1)
         IN  [loop |-> rest.loop,
              calls |-> <<<<l.handler, front(l.events)>>>> \o rest.calls]
    ELSE [loop |-> l, calls |-> <<>>]

\* the for loop of event_loop::run(): the front element is taken, pop() removes
\* it, the handler is called. Calling a std::function without a target throws
\* std::bad_function_call, which ends run() with the element already removed.
RECURSIVE run_loop(_, _)
run_loop(l, count) ==
  IF count > 0 /\ ~empty(l.events)
    THEN LET popped == pop_front(l.events).buffer
             rest   == IF l.handler = NullHandler
                         THEN [loop |-> [l EXCEPT !.events = popped], calls |-> <<>>]
                         ELSE run_loop([l EXCEPT !.events = handler_call(l.handler, popped)],
                                       count - 1)
         IN  [loop |-> rest.loop,
              calls |-> <<<<l.handler, front(l.events)>>>> \o rest.calls]
    ELSE [loop |-> l, calls |-> <<>>]

\* event_loop::run(): the members it leaves and the handler calls it makes
run(l) ==
  IF empty(l.events)
    THEN [loop |-> l, calls |-> <<>>]
    ELSE run_loop(l, l.max_events_per_call)

At(a, calls) == [k \in 1 .. Len(calls) |-> <<a, calls[k][1], calls[k][2]>>]

\* an event_loop operation: what it leaves of the registry, with no dispatch
\* by the kernel
LoopOp(ts2, op, hook) ==
  /\ tasks' = ts2
  /\ runLog' = <<>>
  /\ hookCalled' = hook
  /\ lastOp' = op
  /\ UNCHANGED <<current_index, recent, timerVars, callLog, buffers>>

\* an operation on the members of the event_loop at address a
MemberOp(a, l, op, given, calls, result) ==
  /\ objKind[a] = "loop"
  /\ loops' = [loops EXCEPT ![a] = l]
  /\ delivered' = At(a, calls)
  /\ ret' = result
  /\ arg' = given
  /\ LoopOp(tasks, op, FALSE)
  /\ UNCHANGED <<objKind, objMoved>>

\* event_loop::event_loop()
LoopCtor(a) ==
  /\ objKind[a] = "none"
  /\ LET r == register_task(tasks, a)
     IN  /\ objKind' = [objKind EXCEPT ![a] = "loop"]
         /\ objMoved' = [objMoved EXCEPT ![a] = FALSE]
         /\ loops' = [loops EXCEPT ![a] = DefaultLoop]
         /\ LoopOp(r.tasks, <<"loop_ctor", a, a>>, ~r.ok)
  /\ delivered' = <<>>
  /\ ret' = FALSE
  /\ arg' = "none"

\* event_loop::~event_loop()
LoopDtor(a) ==
  /\ objKind[a] = "loop"
  /\ objKind' = [objKind EXCEPT ![a] = "none"]
  /\ objMoved' = [objMoved EXCEPT ![a] = FALSE]
  /\ loops' = [loops EXCEPT ![a] = DefaultLoop]
  /\ LoopOp(unregister_task(tasks, a), <<"loop_dtor", a, a>>, FALSE)
  /\ delivered' = <<>>
  /\ ret' = FALSE
  /\ arg' = "none"

\* event_loop::event_loop(event_loop&& other): a new event_loop at address
\* `to` is constructed from the one at `from`
LoopMoveCtor(from, to) ==
  /\ objKind[from] = "loop"
  /\ objKind[to] = "none"
  /\ objKind' = [objKind EXCEPT ![to] = "loop"]
  /\ objMoved' = [objMoved EXCEPT ![from] = TRUE, ![to] = FALSE]
  /\ LET m == move_buffer(EmptyBuffer, loops[from].events)
     IN  \E left \in MovedFromHandler(loops[from].handler) :
           loops' = [loops EXCEPT
                       ![to] = [handler |-> loops[from].handler,
                                max_events_per_call |-> loops[from].max_events_per_call,
                                events |-> m.dst],
                       ![from] = [@ EXCEPT !.handler = left, !.events = m.src]]
  /\ LoopOp(move_task(tasks, from, to), <<"loop_move_ctor", from, to>>, FALSE)
  /\ delivered' = <<>>
  /\ ret' = FALSE
  /\ arg' = "none"

\* event_loop::operator=(event_loop&& other): the event_loop at `to` is
\* assigned from the one at `from`
LoopMoveAssign(from, to) ==
  /\ objKind[from] = "loop"
  /\ objKind[to] = "loop"
  /\ IF to # from
       THEN /\ objMoved' = [objMoved EXCEPT ![from] = TRUE, ![to] = objMoved[from]]
            /\ LET m == move_buffer(loops[to].events, loops[from].events)
               IN  \E left \in MovedFromHandler(loops[from].handler) :
                     loops' = [loops EXCEPT
                                 ![to] = [handler |-> loops[from].handler,
                                          max_events_per_call |->
                                            loops[from].max_events_per_call,
                                          events |-> m.dst],
                                 ![from] = [@ EXCEPT !.handler = left, !.events = m.src]]
            /\ LoopOp(move_task(unregister_task(tasks, to), from, to),
                      <<"loop_move_assign", from, to>>, FALSE)
       ELSE /\ UNCHANGED <<objMoved, loops>>
            /\ LoopOp(tasks, <<"loop_move_assign", from, to>>, FALSE)
  /\ delivered' = <<>>
  /\ ret' = FALSE
  /\ arg' = "none"
  /\ UNCHANGED objKind

\* event_loop::set_handler(handler)
LoopSetHandler(a, handler) ==
  MemberOp(a, set_handler(loops[a], handler), <<"set_handler", a, 0>>, handler, <<>>, FALSE)

\* event_loop::set_max_events_per_call(count)
LoopSetMax(a, count) ==
  MemberOp(a, set_max_events_per_call(loops[a], count), <<"set_max", a, count>>,
           "none", <<>>, FALSE)

\* event_loop::push(event)
LoopPush(a, event) ==
  LET r == push_back(loops[a].events, event)
  IN  MemberOp(a, [loops[a] EXCEPT !.events = r.buffer], <<"push", a, 0>>, event, <<>>, r.ok)

\* event_loop::push_over(event); the operation is recorded with the size() it
\* found
LoopPushOver(a, event) ==
  MemberOp(a, [loops[a] EXCEPT !.events = push_over(loops[a].events, event)],
           <<"push_over", a, loops[a].events.size>>, event, <<>>, FALSE)

\* event_loop::clear()
LoopClear(a) ==
  MemberOp(a, [loops[a] EXCEPT !.events = clear(loops[a].events)],
           <<"clear", a, 0>>, "none", <<>>, FALSE)

\* event_loop::run(), called on the object
LoopRun(a) ==
  LET r == run(loops[a])
  IN  MemberOp(a, r.loop, <<"run", a, 0>>, "none", r.calls, FALSE)

\* kernel::process_tasks() over a registry of event loops: the run() of the
\* dispatched event_loop is part of the call
LoopProcessTasks ==
  LET r == process_tasks_scan(tasks, current_index, current_index)
  IN  /\ current_index' = r.cursor
      /\ runLog' = r.ran
      /\ IF r.ran # <<>> /\ objKind[r.ran[1]] = "loop"
           THEN /\ loops' = [loops EXCEPT ![r.ran[1]] = run(@).loop]
                /\ delivered' = At(r.ran[1], run(loops[r.ran[1]]).calls)
           ELSE /\ loops' = loops
                /\ delivered' = <<>>
      /\ ret' = FALSE
      /\ arg' = "none"
      /\ hookCalled' = FALSE
      /\ lastOp' = <<"process_tasks", 0, 0>>
      /\ UNCHANGED <<tasks, objKind, objMoved, recent, timerVars, callLog, buffers>>

InitLoops ==
  /\ loops = [a \in Addr |-> DefaultLoop]
  /\ delivered = <<>>
  /\ ret = FALSE
  /\ arg = "none"
  /\ buffers = [a \in TwoBuffers |-> EmptyBuffer]

(***************************************************************************)
(* The kernel specification: every task operation in any order.            *)
(***************************************************************************)
InitObjects ==
  /\ tasks = [i \in TaskSlots |-> NULL]
  /\ current_index = 0
  /\ objKind = [a \in Addr |-> "none"]
  /\ objMoved = [a \in Addr |-> FALSE]
  /\ runLog = <<>>
  /\ recent = <<>>
  /\ hookCalled = FALSE
  /\ lastOp = <<"init", 0, 0>>

InitKernel == InitObjects /\ InitTimers /\ InitLoops

NextKernel ==
  \/ \E a \in Addr : TaskCtor(a)
  \/ \E a \in Addr : ManualCtor(a)
  \/ \E a \in Addr : TaskDtor(a)
  \/ \E a, b \in Addr : TaskMoveCtor(a, b)
  \/ \E a, b \in Addr : TaskMoveAssign(a, b)
  \/ \E a \in Addr : ManualStart(a)
  \/ \E a \in Addr : ManualStop(a)
  \/ ProcessTasks

SpecKernel == InitKernel /\ [][NextKernel]_vars

(***************************************************************************)
(* Single-shot timers under a driver that calls process_timers() at least  *)
(* once after each tick.                                                   *)
(***************************************************************************)
NextShot ==
  \/ Increment(1)
  \/ ProcessTimers
  \/ \E iv \in PositiveIntervals : SingleShot(iv, "cb1")

SpecShot == InitKernel /\ [][NextShot]_vars

\* A driver whose main loop never stops: the clock's interrupt keeps ticking
\* and the loop keeps calling process_timers(). The application arms a further
\* single shot only while at most one is waiting.
AtMostOneArmed == Cardinality({i \in TimerSlots : timers[i].registered}) <= 1

NextShotFair ==
  \/ Increment(1)
  \/ ProcessTimers
  \/ \E iv \in PositiveIntervals : AtMostOneArmed /\ SingleShot(iv, "cb1")

SpecShotFair ==
  InitKernel /\ [][NextShotFair]_vars /\ WF_vars(Increment(1)) /\ WF_vars(ProcessTimers)

(***************************************************************************)
(* One periodic timer at a time, under a driver that calls                 *)
(* process_timers() once after each tick.                                  *)
(***************************************************************************)
NoneRegistered == \A i \in TimerSlots : ~timers[i].registered

NextPeriodic ==
  \/ Increment(1)
  \/ pending > 0 /\ ProcessTimers
  \/ \E h \in Handles, iv \in PositiveIntervals :
       NoneRegistered /\ RegisterTimer(h, iv, "cb1")
  \/ \E h \in Handles : hId[h] \in TimerSlots /\ TimerStart(h)
  \/ \E h \in Handles : hId[h] \in TimerSlots /\ TimerStop(h)
  \/ \E h \in Handles : TimerDtor(h)

SpecPeriodic == InitKernel /\ [][NextPeriodic]_vars

(***************************************************************************)
(* The timer API in any order, for an application that holds two handles:  *)
(* handles are registered, started, stopped, moved, unregistered and       *)
(* destroyed, single shots are armed, the pool is reset and                *)
(* process_timers() is called. Every timer has interval 0, so a running    *)
(* timer is expired at every call.                                         *)
(***************************************************************************)
TwoHandles == {1, 2}

NextHandles ==
  \/ ProcessTimers
  \/ \E h \in TwoHandles : RegisterTimer(h, 0, "cb1")
  \/ SingleShot(0, "cb2")
  \/ \E h \in TwoHandles : TimerStart(h)
  \/ \E h \in TwoHandles : TimerStop(h)
  \/ \E h \in TwoHandles : TimerUnregister(h)
  \/ \E h \in TwoHandles : TimerDtor(h)
  \/ \E h1, h2 \in TwoHandles : TimerMoveCtor(h1, h2)
  \/ \E h1, h2 \in TwoHandles : TimerMoveAssign(h1, h2)
  \/ UnregisterTimers

SpecHandles == InitKernel /\ [][NextHandles]_vars

(***************************************************************************)
(* One periodic timer, registered with interval 1 and callback cb1, whose  *)
(* callback is replaced at any moment and whose interval is replaced right *)
(* after it was started or fired, under a driver that calls                *)
(* process_timers() once after each tick.                                  *)
(***************************************************************************)
JustArmed(h) == hId[h] \in TimerSlots /\ hist[hId[h]].age = 0 /\ pending = 0

NextSet ==
  \/ Increment(1)
  \/ pending > 0 /\ ProcessTimers
  \/ \E h \in Handles : NoneRegistered /\ RegisterTimer(h, 1, "cb1")
  \/ \E h \in Handles : hId[h] \in TimerSlots /\ TimerStart(h)
  \/ \E h \in Handles, cb \in Callbacks \ {NoCallback} : TimerSetCallback(h, cb)
  \/ \E h \in Handles, iv \in PositiveIntervals : JustArmed(h) /\ TimerSetInterval(h, iv)
  \/ \E h \in Handles : TimerDtor(h)

SpecSet == InitKernel /\ [][NextSet]_vars

(***************************************************************************)
(* One event loop: it is constructed, given handlers and dispatch limits,  *)
(* events are pushed, the queue is cleared, and run() is called directly   *)
(* and through process_tasks().                                            *)
(***************************************************************************)
TheLoop == {1}
Counts == {0, 1, 2, max_event_per_call_num, max_event_per_call_num + 1}

NextLoop ==
  \/ \E a \in TheLoop : LoopCtor(a)
  \/ \E a \in TheLoop : LoopDtor(a)
  \/ \E a \in TheLoop, h \in Handlers : LoopSetHandler(a, h)
  \/ \E a \in TheLoop, n \in Counts : LoopSetMax(a, n)
  \/ \E a \in TheLoop, e \in Events : LoopPush(a, e)
  \/ \E a \in TheLoop, e \in Events : LoopPushOver(a, e)
  \/ \E a \in TheLoop : LoopClear(a)
  \/ \E a \in TheLoop : LoopRun(a)
  \/ LoopProcessTasks

SpecLoop == InitKernel /\ [][NextLoop]_vars

(***************************************************************************)
(* An event loop at address 1 that is configured and fed, and moved to     *)
(* address 2 by move construction or by move assignment; both are run,     *)
(* directly and through process_tasks(), and destroyed. The application    *)
(* pushes e1 and e2 in turn.                                               *)
(***************************************************************************)
TwoLoops == {1, 2}

\* the event after the one in the cell written last
Newest(b) == b.data[IF b.last = 0 THEN EventQueueSize - 1 ELSE b.last - 1]
InTurn(b) == IF Newest(b) = "e1" THEN "e2" ELSE "e1"

NextLoopMove ==
  \/ \E a \in TwoLoops : LoopCtor(a)
  \/ \E a \in TwoLoops : LoopDtor(a)
  \/ LoopMoveCtor(1, 2)
  \/ LoopMoveAssign(1, 2)
  \/ \E h \in {"take", NullHandler} : LoopSetHandler(1, h)
  \/ LoopSetMax(1, 2)
  \/ LoopPush(1, InTurn(loops[1].events))
  \/ \E a \in TwoLoops : LoopRun(a)
  \/ LoopProcessTasks

SpecLoopMove == InitKernel /\ [][NextLoopMove]_vars

(***************************************************************************)
(* A factory: an event loop is constructed at address 1, configured and    *)
(* fed, and returned by move construction to address 2; the temporary is   *)
(* destroyed and the kernel dispatches.                                    *)
(***************************************************************************)
NextLoopFactory ==
  \/ LoopCtor(1)
  \/ \E a \in TwoLoops : LoopDtor(a)
  \/ LoopMoveCtor(1, 2)
  \/ LoopSetHandler(1, "take")
  \/ LoopSetMax(1, 2)
  \/ LoopPush(1, InTurn(loops[1].events))
  \/ LoopProcessTasks

SpecLoopFactory == InitKernel /\ [][NextLoopFactory]_vars

(***************************************************************************)
(* One periodic timer that is never stopped, while the tick counter runs   *)
(* through its whole range and wraps to 0, under a driver that calls       *)
(* process_timers() once after each tick; the application also asks        *)
(* has_passed() for the same start tick and interval.                      *)
(***************************************************************************)
NextWrap ==
  \/ Increment(1)
  \/ pending > 0 /\ ProcessTimers
  \/ \E h \in Handles, iv \in PositiveIntervals :
       NoneRegistered /\ RegisterTimer(h, iv, "cb1")
  \/ \E h \in Handles : hId[h] \in TimerSlots /\ TimerStart(h)
  \/ \E h \in Handles : HasPassed(h)
  \/ \E h \in Handles : TimerDtor(h)

SpecWrap == InitKernel /\ [][NextWrap]_vars

(***************************************************************************)
(* Handles that hold no timer: default-constructed, unregistered, moved    *)
(* from or returned by a registration that found the pool full, used like  *)
(* any other handle. The clock does not move.                              *)
(***************************************************************************)
NextInvalid ==
  \/ \E h \in Handles : TimerCtor(h)
  \/ \E h \in Handles, iv \in Intervals : RegisterTimer(h, iv, "cb1")
  \/ \E h \in Handles : TimerUnregister(h)
  \/ \E h1, h2 \in Handles : TimerMoveCtor(h1, h2)
  \/ \E h \in Handles, iv \in Intervals : TimerSetInterval(h, iv)
  \/ \E h \in Handles : TimerStart(h)
  \/ \E h \in Handles : TimerStop(h)
  \/ \E h \in Handles : TimerDtor(h)

SpecInvalid == InitKernel /\ [][NextInvalid]_vars

(***************************************************************************)
(* Two periodic timers under the driver of the tests: after each tick      *)
(* process_timers() is called max_timer_num times. Timers are registered,  *)
(* started and destroyed between two ticks.                                *)
(***************************************************************************)
NextMulti ==
  \/ Increment(max_timer_num)
  \/ pending > 0 /\ ProcessTimers
  \/ \E h \in TwoHandles, iv \in PositiveIntervals :
       pending = 0 /\ RegisterTimer(h, iv, "cb1")
  \/ \E h \in TwoHandles : pending = 0 /\ hId[h] \in TimerSlots /\ TimerStart(h)
  \/ \E h \in TwoHandles : pending = 0 /\ TimerDtor(h)

SpecMulti == InitKernel /\ [][NextMulti]_vars

(***************************************************************************)
(* Timers whose callbacks use the timer API: periodic timers of interval 0 *)
(* with a plain callback, with one that arms a single shot, or with one    *)
(* that unregisters its own handle and arms a single shot; single shots    *)
(* armed from the main loop; and process_timers().                         *)
(***************************************************************************)
NextCallback ==
  \/ \E h \in TwoHandles, cb \in {"cb1"} \cup ArmingCallbacks : RegisterTimer(h, 0, cb)
  \/ \E h \in TwoHandles : hId[h] \in TimerSlots /\ TimerStart(h)
  \/ \E h \in TwoHandles : hId[h] \in TimerSlots /\ TimerStop(h)
  \/ \E h \in TwoHandles : TimerDtor(h)
  \/ SingleShot(0, "cb2")
  \/ ProcessTimersCalling

SpecCallback == InitKernel /\ [][NextCallback]_vars

(***************************************************************************)
(* Two circular_buffer objects: every operation on either, and moves       *)
(* between them.                                                           *)
(***************************************************************************)
NextBuffer ==
  \/ \E a \in TwoBuffers : BufferCtor(a)
  \/ \E a \in TwoBuffers, x \in Events : BufferPushBack(a, x)
  \/ \E a \in TwoBuffers, x \in Events : BufferPushFront(a, x)
  \/ \E a \in TwoBuffers : BufferPopFront(a)
  \/ \E a \in TwoBuffers : BufferPopBack(a)
  \/ \E a \in TwoBuffers, x \in Events : BufferPushOver(a, x)
  \/ \E a \in TwoBuffers : BufferClear(a)
  \/ \E a, b \in TwoBuffers : BufferMoveCtor(a, b)
  \/ \E a, b \in TwoBuffers : BufferMoveAssign(a, b)

SpecBuffer == InitKernel /\ [][NextBuffer]_vars

(***************************************************************************)
(* Periodic timers under a driver that calls process_timers() at any time, *)
(* however many ticks have passed: timers are registered with an interval  *)
(* of one tick or more, started once and destroyed.                        *)
(***************************************************************************)
NextLate ==
  \/ Increment(0)
  \/ ProcessTimersLate
  \/ \E h \in TwoHandles, iv \in PositiveIntervals : RegisterTimer(h, iv, "cb1")
  \/ \E h \in TwoHandles :
       hId[h] \in TimerSlots /\ ~timers[hId[h]].active /\ TimerStart(h)
  \/ \E h \in TwoHandles : TimerDtor(h)

SpecLate == InitKernel /\ [][NextLate]_vars

(***************************************************************************)
(* Idle calls: one task is constructed and destroyed, one timer of         *)
(* interval 1 is registered, started, stopped and destroyed, the clock     *)
(* ticks, and process_tasks() and process_timers() are called at any time, *)
(* with or without anything to dispatch.                                   *)
(***************************************************************************)
NextIdle ==
  \/ TaskCtor(1)
  \/ TaskDtor(1)
  \/ ProcessTasks
  \/ RegisterTimer(1, 1, "cb1")
  \/ TimerStart(1)
  \/ TimerStop(1)
  \/ TimerDtor(1)
  \/ Increment(0)
  \/ ProcessTimers

SpecIdle == InitKernel /\ [][NextIdle]_vars

(***************************************************************************)
(* An application that constructs its tasks and arms single-shot timers,   *)
(* and then runs its main loop: tick, process_all().                       *)
(***************************************************************************)
Setup == lastOp[1] \notin {"increment", "process_all"}

NextAll ==
  \/ \E a \in Addr : Setup /\ TaskCtor(a)
  \/ \E a \in Addr : Setup /\ TaskDtor(a)
  \/ \E iv \in PositiveIntervals : Setup /\ SingleShot(iv, "cb1")
  \/ Increment(1)
  \/ ProcessAll

SpecAll == InitKernel /\ [][NextAll]_vars

(***************************************************************************)
(* Properties of the task registry                                         *)
(***************************************************************************)
Count(a, s) == Cardinality({k \in 1 .. Len(s) : s[k] = a})
LastN(s, n) == SubSeq(s, Len(s) - n + 1, Len(s))

\* C1: round-robin fairness of process_tasks(). While the registry is not
\* modified, any N consecutive calls (N = number of registered tasks) run every
\* registered task exactly once, and over any run of consecutive calls the run
\* counts of two registered tasks differ by at most 1.
C1_RoundRobinFair ==
  LET reg == Registered(tasks)
      n   == Cardinality(reg)
  IN  /\ \A a, b \in reg : Count(a, recent) - Count(b, recent) <= 1
      /\ SeqSet(recent) \subseteq reg
      /\ (n > 0 /\ Len(recent) >= n) => SeqSet(LastN(recent, n)) = reg

\* two tasks registered and a full window of dispatches with no change of the registry
C1_Witness ==
  /\ Cardinality(Registered(tasks)) = task_max_num
  /\ Len(recent) = WindowLen

\* C8: one task slice per call. A call of process_tasks() invokes run() on
\* exactly one task, registered when the call began, if the registry is not
\* empty, and on none if it is empty; also when that run() body starts or stops
\* tasks, its own included.
C8_OneSlicePerCall ==
  [][lastOp'[1] = "process_tasks" =>
       /\ Len(runLog') = IF Occupied(tasks) # {} THEN 1 ELSE 0
       /\ SeqSet(runLog') \subseteq Registered(tasks)]_vars

\* a call whose run() body unregistered its own task
C8_Witness ==
  /\ lastOp[1] = "process_tasks"
  /\ Len(runLog) = 1
  /\ runLog[1] \notin Registered(tasks)
  /\ Registered(tasks) # {}

\* C9: move construction of a registered task from address X to address Y
\* repoints X's slot to Y at the same index and changes no other slot, so no
\* slot points to X and the number of occupied slots is unchanged; destroying
\* the moved-from object leaves the registry as it is; and a dispatch runs the
\* object its slot points to, never a moved-from or destroyed one.
C9_MoveCtorPatches ==
  [][/\ \A x, y \in Addr :
          (lastOp' = <<"move_ctor", x, y>> /\ SlotsOf(tasks, x) # {}) =>
            /\ tasks' = [i \in TaskSlots |-> IF tasks[i] = x THEN y ELSE tasks[i]]
            /\ SlotsOf(tasks', x) = {}
            /\ Cardinality(Occupied(tasks')) = Cardinality(Occupied(tasks))
     /\ \A x \in Addr :
          (lastOp' = <<"dtor", x, x>> /\ objMoved[x]) => tasks' = tasks
     /\ lastOp'[1] = "process_tasks" =>
          \A k \in 1 .. Len(runLog') :
            /\ runLog'[k] \in Registered(tasks)
            /\ objKind[runLog'[k]] # "none"
            /\ ~objMoved[runLog'[k]]]_vars

\* a registered task was move-constructed into a slot that is not the lowest free one
C9_Witness ==
  \E x, y \in Addr :
    /\ lastOp = <<"move_ctor", x, y>>
    /\ objMoved[x]
    /\ \E i \in TaskSlots : i > 0 /\ tasks[i] = y /\ tasks[0] = NULL

\* C10: the registry invariant. No two slots hold the same task, and every
\* occupied slot points to a live object that is not a moved-from one.
C10_RegistryInvariant ==
  /\ \A i, j \in TaskSlots : (i # j /\ tasks[i] # NULL) => tasks[i] # tasks[j]
  /\ \A i \in TaskSlots :
       tasks[i] # NULL => (objKind[tasks[i]] # "none" /\ ~objMoved[tasks[i]])

\* a full registry beside a moved-from object that is still alive
C10_Witness ==
  /\ Cardinality(Registered(tasks)) = task_max_num
  /\ \E a \in Addr : objKind[a] # "none" /\ objMoved[a]

(***************************************************************************)
(* Properties of the timer pool                                            *)
(***************************************************************************)
\* C2: periodic timer exactness. With one registered timer of interval I >= 1
\* started at tick S, the clock advancing tick by tick and process_timers()
\* called once after each tick, the callback is invoked when exactly I ticks
\* have passed since the start or the previous firing: never earlier, and it
\* is never left waiting once I ticks have passed.
C2_PeriodicExact ==
  \A i \in TimerSlots :
    (timers[i].registered /\ ~timers[i].single_shot) =>
      /\ ~hist[i].early
      /\ timers[i].active =>
           /\ hist[i].age <= timers[i].interval
           /\ pending = 0 => hist[i].age < timers[i].interval

\* the second firing of a started timer of interval 2
C2_Witness ==
  \E i \in TimerSlots :
    /\ lastOp[1] = "process_timers"
    /\ cbLog = <<i>>
    /\ timers[i].interval = 2
    /\ timers[i].active
    /\ hist[i].count = 2

\* C3: single-shot semantics. The callback of a timer armed by single_shot()
\* is invoked exactly once: it is invoked at most once, the slot is released by
\* that firing so no later process_timers() invokes it again, and while the
\* driver keeps ticking and calling process_timers() an armed single shot does
\* fire.
C3_SingleShotOnce ==
  /\ [](\A i \in TimerSlots :
          /\ hist[i].count <= 1
          /\ hist[i].count = 1 => (~timers[i].registered /\ ~timers[i].active))
  /\ \A i \in TimerSlots :
       (timers[i].registered /\ timers[i].active) ~> (hist[i].count = 1)

\* a single shot that fired once, and ticks and calls of process_timers()
\* after it that fired nothing
C3_Witness ==
  \E i \in TimerSlots :
    /\ hist[i].count = 1
    /\ hist[i].age = AgeCap
    /\ timers[i].single_shot
    /\ lastOp[1] = "process_timers"
    /\ cbLog = <<>>

\* C4: single_shot() starts the slot's elapsed tracker at registration, so the
\* callback of a single shot armed at tick T with interval I is not invoked by
\* a process_timers() call made before tick T + I.
C4_NotBeforeInterval ==
  \A i \in TimerSlots : timers[i].single_shot => ~hist[i].early

\* C5: one call of process_timers() invokes at most one callback, also when
\* several registered, active timers have expired; every slot it did not fire
\* is left unchanged, so the other expired timers are still due.
C5_AtMostOneCallback ==
  [][lastOp'[1] = "process_timers" =>
       /\ Len(cbLog') <= 1
       /\ SeqSet(cbLog') \subseteq DueSlots(timers, sys_clock_tick)
       /\ \A i \in TimerSlots \ SeqSet(cbLog') :
            /\ timers'[i] = timers[i]
            /\ Due(timers[i], sys_clock_tick) => Due(timers'[i], sys_clock_tick')]_vars

\* a call that found two timers expired, fired one and left the other due
C5_Witness ==
  \E i, j \in TimerSlots :
    /\ lastOp[1] = "process_timers"
    /\ cbLog = <<i>>
    /\ j # i
    /\ j \in dueBefore
    /\ Due(timers[j], sys_clock_tick)

(***************************************************************************)
(* Properties of process_all()                                             *)
(***************************************************************************)
\* the due slot the scan meets first, going round from the cursor
FirstDue(due, ci) ==
  CHOOSE i \in due :
    \A j \in due : (i - ci) % max_timer_num <= (j - ci) % max_timer_num

\* C6 as stated: every timer that is registered, active and expired when
\* process_all() is called has had its callback invoked when the call returns.
C6_AllDueTimersFire ==
  lastOp[1] = "process_all" => dueBefore \subseteq SeqSet(cbLog)

\* C6, amended: process_all() calls process_timers() once and then
\* process_tasks() once. If some timer is registered, active and expired when it
\* is called, exactly one of them has fired when it returns, the first one met
\* going round from the pool's cursor; the others are unchanged and still due;
\* and one task has run if the registry is not empty.
C6_OneDueTimerFires ==
  [][lastOp'[1] = "process_all" =>
       LET due == DueSlots(timers, sys_clock_tick)
       IN  /\ cbLog' = IF due # {} THEN <<FirstDue(due, curr_index)>> ELSE <<>>
           /\ \A i \in TimerSlots \ SeqSet(cbLog') : timers'[i] = timers[i]
           /\ \A i \in due \ SeqSet(cbLog') : Due(timers'[i], sys_clock_tick')
           /\ Len(runLog') = IF Occupied(tasks) # {} THEN 1 ELSE 0]_vars

\* a call of process_all() that found two timers expired, fired one of them
\* and ran a task
C6_Witness ==
  /\ lastOp[1] = "process_all"
  /\ Cardinality(dueBefore) >= 2
  /\ Len(cbLog) = 1
  /\ \E i \in dueBefore \ SeqSet(cbLog) : Due(timers[i], sys_clock_tick)
  /\ Len(runLog) = 1

\* C7: ordering inside process_all(). Within one call the timer callback, if
\* any, is invoked before the run() of the dispatched task: no run() is
\* followed by a timer callback of the same call.
C7_TimersBeforeTask ==
  \A j, k \in 1 .. Len(callLog) :
    (callLog[j][1] = "task" /\ callLog[k][1] = "timer") => k < j

\* a call that invoked a timer callback and then ran a task
C7_Witness ==
  /\ lastOp[1] = "process_all"
  /\ Len(callLog) = 2
  /\ callLog[1][1] = "timer"
  /\ callLog[2][1] = "task"

(***************************************************************************)
(* Properties of the timer handles                                         *)
(***************************************************************************)
\* C11: timer handle uniqueness. In every state reachable through the timer
\* API no two live handles hold the id of the same slot, so no handle can
\* report valid(), stop or unregister a timer registered for another handle.
C11_HandlesUnique ==
  \A h1, h2 \in Handles :
    (h1 # h2 /\ hLive[h1] /\ hLive[h2] /\ hId[h1] \in TimerSlots) => hId[h1] # hId[h2]

\* C12: a timer returned by register_timer() is registered but not running:
\* right after a successful registration valid() is true and running() is
\* false, whatever operations preceded the registration.
C12_RegisteredNotRunning ==
  \A h \in Handles :
    (lastOp = <<"register_timer", h, 0>> /\ hId[h] \in TimerSlots) =>
      (valid(h) /\ ~running(h))

\* C13: stop() on a running timer takes effect at once. When stop() returns
\* running() is false and the slot is otherwise as it was, still registered;
\* only start() makes a slot active again; and process_timers() invokes the
\* callback of active slots only, so a stopped timer is not fired however many
\* ticks pass.
C13_StopTakesEffect ==
  [][/\ \A h \in Handles :
          (lastOp' = <<"timer_stop", h, 0>> /\ running(h)) =>
            /\ ~running(h)'
            /\ valid(h)'
            /\ timers' = [timers EXCEPT ![hId[h]].active = FALSE]
     /\ \A i \in TimerSlots :
          (~timers[i].active /\ timers'[i].active) => lastOp'[1] = "timer_start"
     /\ lastOp'[1] = "process_timers" =>
          \A i \in SeqSet(cbLog') : timers[i].active]_vars

\* a timer that fired while it ran, was stopped, and then was left alone by
\* process_timers() although more ticks than its interval have passed
C13_Witness ==
  \E h \in Handles :
    /\ valid(h)
    /\ ~running(h)
    /\ hist[hId[h]].count >= 1
    /\ hist[hId[h]].age = AgeCap
    /\ lastOp[1] = "process_timers"
    /\ cbLog = <<>>

\* C14: timer cancellation. unregister() on a handle, or the handle's
\* destruction, resets the handle's slot to the free default and leaves the
\* handle with the sentinel id, so valid() is false; a slot becomes registered
\* only by register_timer() or single_shot(); and process_timers() invokes the
\* callback of registered slots only, so the cancelled timer never fires again.
C14_UnregisterCancels ==
  [][/\ \A h \in Handles :
          lastOp' \in {<<"timer_unregister", h, 0>>, <<"timer_dtor", h, 0>>} =>
            /\ hId'[h] = empty_timer_id
            /\ ~valid(h)'
            /\ hId[h] \in TimerSlots =>
                 timers' = [timers EXCEPT ![hId[h]] = DefaultTimer]
            /\ hId[h] \notin TimerSlots => timers' = timers
     /\ \A i \in TimerSlots :
          (~timers[i].registered /\ timers'[i].registered) =>
            lastOp'[1] \in {"register_timer", "single_shot"}
     /\ lastOp'[1] = "process_timers" =>
          \A i \in SeqSet(cbLog') : timers[i].registered]_vars

\* a running timer that had fired was unregistered through its handle, and
\* process_timers() then fired nothing
C14_Witness ==
  \E i \in TimerSlots :
    /\ timers[i] = DefaultTimer
    /\ hist[i].count = 2
    /\ \A j \in TimerSlots : ~timers[j].registered
    /\ lastOp[1] = "process_timers"
    /\ cbLog = <<>>

\* C16: timer pool exhaustion. When every slot is registered,
\* register_timer() returns a handle with the sentinel id, for which valid()
\* is false, single_shot() returns false, no slot is modified and the assert
\* hook is invoked (where debug assertions are compiled in); when a slot is
\* free the hook is not invoked; and every id held by a handle is the
\* sentinel or an index of the pool.
PoolFull(tm) == \A i \in TimerSlots : tm[i].registered

C16_PoolExhaustion ==
  [][/\ \A h \in Handles :
          lastOp' = <<"register_timer", h, 0>> =>
            IF PoolFull(timers)
              THEN /\ hId'[h] = empty_timer_id
                   /\ ~valid(h)'
                   /\ timers' = timers
                   /\ invalid' = invalid
                   /\ hookCalled'
              ELSE /\ hId'[h] \in TimerSlots
                   /\ valid(h)'
                   /\ ~hookCalled'
     /\ lastOp'[1] = "single_shot" =>
          IF PoolFull(timers)
            THEN /\ registerTimerImpl(timers, 0, "cb2", TRUE).id = empty_timer_id
                 /\ timers' = timers
                 /\ invalid' = invalid
                 /\ hookCalled'
            ELSE /\ registerTimerImpl(timers, 0, "cb2", TRUE).id \in TimerSlots
                 /\ ~hookCalled'
     /\ \A h \in Handles : hId'[h] \in TimerSlots \cup {empty_timer_id}]_vars

\* register_timer() was called on a full pool, one slot of which holds a
\* single shot
C16_Witness ==
  \E h \in Handles :
    /\ lastOp = <<"register_timer", h, 0>>
    /\ hLive[h]
    /\ hId[h] = empty_timer_id
    /\ hookCalled
    /\ PoolFull(timers)
    /\ \E i \in TimerSlots : timers[i].single_shot

\* C20: timer handle move. After a handle h2 is move-constructed or
\* move-assigned from a distinct handle h1, h1 holds the sentinel id and is not
\* valid, h2 holds the id h1 held, and the slot of that id is as it was before
\* the move; a move construction changes no slot, and a move assignment
\* resets the slot h2 held before and changes no other slot.
C20_HandleMove ==
  [][\A h1, h2 \in Handles :
       /\ lastOp' = <<"timer_move_ctor", h1, h2>> =>
            /\ hId'[h1] = empty_timer_id
            /\ ~valid(h1)'
            /\ hId'[h2] = hId[h1]
            /\ timers' = timers
       /\ (lastOp' = <<"timer_move_assign", h1, h2>> /\ h1 # h2) =>
            /\ hId'[h1] = empty_timer_id
            /\ ~valid(h1)'
            /\ hId'[h2] = hId[h1]
            /\ \A i \in TimerSlots :
                 timers'[i] = IF i = hId[h1] THEN timers[i]
                              ELSE IF i = hId[h2] THEN DefaultTimer ELSE timers[i]]_vars

(***************************************************************************)
(* Further properties of the task registry                                 *)
(***************************************************************************)
\* C15: manual_task lifecycle. A manual_task is not registered by its
\* construction; it is unregistered as soon as stop() or its destructor
\* returns; it becomes registered only by start() on it (called by the
\* application or by a run() body) or by a move from a registered object; and
\* process_tasks() dispatches only tasks that are registered when it is
\* called, so a manual_task runs only between a start() and the next stop().
C15_ManualTaskLifecycle ==
  [][/\ \A a \in Addr :
          lastOp' \in {<<"manual_ctor", a, a>>, <<"stop", a, a>>, <<"dtor", a, a>>} =>
            a \notin Registered(tasks')
     /\ \A a \in Addr :
          (objKind'[a] = "manual" /\ a \notin Registered(tasks) /\ a \in Registered(tasks')) =>
            \/ lastOp' = <<"start", a, a>>
            \/ lastOp'[1] = "process_tasks"
            \/ /\ lastOp'[1] \in {"move_ctor", "move_assign"}
               /\ lastOp'[3] = a
               /\ lastOp'[2] \in Registered(tasks)
     /\ lastOp'[1] = "process_tasks" =>
          \A a \in SeqSet(runLog') : a \in Registered(tasks)]_vars

\* a window of dispatches that ran a started manual_task and never the
\* manual_task that is alive but not registered
C15_Witness ==
  \E a, b \in Addr :
    /\ a # b
    /\ objKind[a] = "manual"
    /\ objKind[b] = "manual"
    /\ b \notin Registered(tasks)
    /\ lastOp[1] = "process_tasks"
    /\ Len(recent) = WindowLen
    /\ a \in SeqSet(recent)
    /\ b \notin SeqSet(recent)

C18_RegisterTask ==
  [][/\ \A a \in Addr :
          LET r    == register_task(tasks, a)
              free == {i \in TaskSlots : tasks[i] = NULL}
          IN  IF a \in Registered(tasks)
                THEN r.ok /\ r.tasks = tasks
                ELSE IF free # {}
                       THEN /\ r.ok
                            /\ \E i \in free :
                                 /\ \A k \in free : i <= k
                                 /\ r.tasks = [tasks EXCEPT ![i] = a]
                       ELSE ~r.ok /\ r.tasks = tasks
     /\ \A a \in Addr :
          lastOp' = <<"start", a, a>> =>
            /\ tasks' = register_task(tasks, a).tasks
            /\ a \in Registered(tasks) => tasks' = tasks
            /\ Cardinality(SlotsOf(tasks', a)) <= 1]_vars

\* a second start() of a manual_task that has been dispatched: the registry
\* and the window of dispatches are as they were
C18_Witness ==
  \E a \in Addr :
    /\ lastOp = <<"start", a, a>>
    /\ a \in Registered(tasks)
    /\ a \in SeqSet(recent)
    /\ tasks[0] = NULL

\* C19: task move assignment a = std::move(b), a and b distinct. If b is
\* registered, the slot that pointed to b points to a afterwards, at the same
\* index, the slot a occupied before, if any, is empty and every other slot is
\* as it was: b is in no slot and a in exactly one. If b is not registered, a
\* is in no slot afterwards. Destroying b then leaves the registry unchanged.
C19_MoveAssignPatches ==
  [][/\ \A b, a \in Addr :
          (lastOp' = <<"move_assign", b, a>> /\ a # b) =>
            /\ tasks' = [i \in TaskSlots |->
                           IF tasks[i] = b THEN a
                           ELSE IF tasks[i] = a THEN NULL ELSE tasks[i]]
            /\ SlotsOf(tasks', b) = {}
            /\ SlotsOf(tasks', a) = SlotsOf(tasks, b)
            /\ Cardinality(SlotsOf(tasks', a)) <= 1
            /\ objMoved'[b]
     /\ \A b \in Addr :
          (lastOp' = <<"dtor", b, b>> /\ objMoved[b] /\ b \notin Registered(tasks)) =>
            tasks' = tasks]_vars

\* a registered task was move-assigned to another task: the target sits in the
\* source's slot, which is not the free slot of the lowest index
C19_Witness ==
  \E b, a \in Addr :
    /\ lastOp = <<"move_assign", b, a>>
    /\ a # b
    /\ objMoved[b]
    /\ tasks[0] = NULL
    /\ \E i \in TaskSlots : i > 0 /\ tasks[i] = a
    /\ Cardinality(Occupied(tasks)) = task_max_num - 1

(***************************************************************************)
(* Properties of set_callback() and set_interval()                         *)
(***************************************************************************)
\* C21: set_callback() and set_interval() on a valid handle change only the
\* named field of the handle's slot: every other field of the slot, every
\* other slot and the clock are as before. So the timer still fires when
\* exactly its current interval has passed since it was started or fired:
\* a callback replaced in the middle of an interval is invoked at the tick
\* that was due before, and an interval replaced right after a firing is the
\* distance to the next firing.
C21_SetChangesOneField ==
  /\ [][\A h \in Handles :
          /\ (lastOp' = <<"set_callback", h, 0>> /\ valid(h)) =>
               /\ \E cb \in Callbacks :
                    timers' = [timers EXCEPT ![hId[h]].callback = cb]
               /\ UNCHANGED <<sys_clock_tick, hist, hId, invalid>>
          /\ (lastOp' = <<"set_interval", h, 0>> /\ valid(h)) =>
               /\ \E iv \in Intervals :
                    timers' = [timers EXCEPT ![hId[h]].interval = iv]
               /\ UNCHANGED <<sys_clock_tick, hist, hId, invalid>>]_vars
  /\ [](\A i \in TimerSlots :
          (timers[i].registered /\ timers[i].active) =>
            /\ ~hist[i].early
            /\ hist[i].age <= timers[i].interval
            /\ pending = 0 => hist[i].age < timers[i].interval)

\* a timer registered with interval 1 and callback cb1 fires for the second
\* time with the callback cb2 and the interval 2
C21_Witness ==
  \E i \in TimerSlots :
    /\ lastOp[1] = "process_timers"
    /\ cbLog = <<i>>
    /\ timers[i].callback = "cb2"
    /\ timers[i].interval = 2
    /\ hist[i].count = 2

(***************************************************************************)
(* Properties of the event loop                                            *)
(***************************************************************************)
Min(x, y) == IF x < y THEN x ELSE y

\* this step is a run() of the event_loop at address a: called on the object,
\* or dispatched by process_tasks()
RunOf(a) ==
  \/ lastOp' = <<"run", a, 0>>
  \/ lastOp'[1] = "process_tasks" /\ runLog' = <<a>>

\* C22: run() with k pending events and max_events_per_call = m, and a handler
\* that pushes nothing, invokes the handler min(k, m) times, on the oldest
\* events in the order they were pushed, and removes them; the other
\* k - min(k, m) events stay queued in their order. With no pending event the
\* handler is not invoked. A newly constructed event_loop has m = 1.
C22_RunDispatchesMin ==
  [][\A a \in TheLoop :
       /\ (RunOf(a) /\ loops[a].handler # "repush") =>
            LET q == Contents(loops[a].events)
                n == Min(Len(q), loops[a].max_events_per_call)
            IN  /\ delivered' = [i \in 1 .. n |-> <<a, loops[a].handler, q[i]>>]
                /\ Contents(loops'[a].events) = SubSeq(q, n + 1, Len(q))
       /\ lastOp' = <<"loop_ctor", a, a>> => loops'[a].max_events_per_call = 1]_vars

\* a run() with the default limit and the events e1, e2 pending: e1 was
\* handled and e2 is still queued
C22_Witness ==
  \E a \in TheLoop :
    /\ lastOp = <<"run", a, 0>>
    /\ loops[a].max_events_per_call = 1
    /\ delivered = <<<<a, "take", "e1">>>>
    /\ Contents(loops[a].events) = <<"e2">>

\* C23: the event queue is bounded. The queue never holds more than
\* EventQueueSize events; push() on a full queue returns false and leaves the
\* queued events, their order and their number as they were; push() on a queue
\* that is not full returns true and appends the event at the back.
C23_BoundedPush ==
  /\ [](\A a \in TheLoop :
          /\ loops[a].events.size \in 0 .. EventQueueSize
          /\ Len(Contents(loops[a].events)) <= EventQueueSize)
  /\ [][\A a \in TheLoop :
          lastOp' = <<"push", a, 0>> =>
            LET q == Contents(loops[a].events)
            IN  IF Len(q) = EventQueueSize
                  THEN /\ ~ret'
                       /\ Contents(loops'[a].events) = q
                       /\ loops'[a].events.size = loops[a].events.size
                  ELSE /\ ret'
                       /\ Contents(loops'[a].events) = Append(q, arg')]_vars

\* a push of e1 that a full queue refused
C23_Witness ==
  \E a \in TheLoop :
    /\ lastOp = <<"push", a, 0>>
    /\ arg = "e1"
    /\ ~ret
    /\ full(loops[a].events)
    /\ Newest(loops[a].events) = "e2"

\* C24: push_over(e) on a full queue evicts exactly the oldest event and
\* appends e at the back: the queue stays full and the surviving events keep
\* their order, [e1, e2, ..., eC] becomes [e2, ..., eC, e]. On a queue that is
\* not full it does what a successful push(e) does.
C24_PushOverEvictsOldest ==
  [][\A a \in TheLoop :
       (lastOp'[1] = "push_over" /\ lastOp'[2] = a) =>
         LET q == Contents(loops[a].events)
         IN  IF Len(q) = EventQueueSize
               THEN /\ Contents(loops'[a].events) = Append(Tail(q), arg')
                    /\ loops'[a].events.size = EventQueueSize
               ELSE /\ Contents(loops'[a].events) = Append(q, arg')
                    /\ loops'[a].events = push_back(loops[a].events, arg').buffer]_vars

\* a push_over of e1 that found the queue full, with e2 as its newest event
C24_Witness ==
  \E a \in TheLoop :
    /\ lastOp = <<"push_over", a, EventQueueSize>>
    /\ arg = "e1"
    /\ LastN(Contents(loops[a].events), 2) = <<"e2", "e1">>

\* C25: re-entrant push. When the handler pushes an event into its own event
\* loop each time it is called, run() behaves as a FIFO queue does: the event
\* being handled has left the queue and is not delivered again, the pushed
\* events go behind every event that was pending and are delivered after
\* them, the queue never holds more than EventQueueSize events, and run()
\* returns after at most max_events_per_call handler calls.
C25_ReentrantPush ==
  [][\A a \in TheLoop :
       (RunOf(a) /\ loops[a].handler = "repush") =>
         LET q   == Contents(loops[a].events)
             n   == IF q = <<>> THEN 0 ELSE loops[a].max_events_per_call
             all == q \o [i \in 1 .. n |-> Reply]
         IN  /\ delivered' = [i \in 1 .. n |-> <<a, "repush", all[i]>>]
             /\ Contents(loops'[a].events) = SubSeq(all, n + 1, Len(all))
             /\ Len(delivered') <= loops[a].max_events_per_call
             /\ loops'[a].events.size <= EventQueueSize]_vars

\* a run() that handled the pending e1 and then the event the handler pushed
\* meanwhile, and left the second pushed event queued
C25_Witness ==
  \E a \in TheLoop :
    /\ lastOp = <<"run", a, 0>>
    /\ delivered = <<<<a, "repush", "e1">>, <<a, "repush", Reply>>>>
    /\ Contents(loops[a].events) = <<Reply>>

\* C26: the handler of an event_loop is never null. After any sequence of
\* construction, set_handler() (an empty callable included), push(), run()
\* and moves, every event_loop object holds a callable handler and every
\* handler call of run() reaches a callable target.
C26_HandlerNeverNull ==
  /\ \A a \in Addr : objKind[a] = "loop" => loops[a].handler # NullHandler
  /\ \A k \in 1 .. Len(delivered) : delivered[k][2] # NullHandler

\* C27: move construction of an event_loop gives the destination the source's
\* pending events in the same order, its handler and its max_events_per_call,
\* and makes the registry slot that held the source hold the destination; a
\* later process_tasks() that dispatches the destination hands the moved
\* events, oldest first, to the handler that came with them.
C27_MoveCtorTransfers ==
  [][/\ \A from, to \in TwoLoops :
          lastOp' = <<"loop_move_ctor", from, to>> =>
            /\ Contents(loops'[to].events) = Contents(loops[from].events)
            /\ loops'[to].handler = loops[from].handler
            /\ loops'[to].max_events_per_call = loops[from].max_events_per_call
            /\ \A i \in TaskSlots :
                 tasks'[i] = IF tasks[i] = from THEN to ELSE tasks[i]
            /\ from \in Registered(tasks) => to \in Registered(tasks')
            /\ from \notin Registered(tasks')
     /\ \A a \in TwoLoops :
          (lastOp'[1] = "process_tasks" /\ runLog' = <<a>>) =>
            LET q == Contents(loops[a].events)
                n == Min(Len(q), loops[a].max_events_per_call)
            IN  /\ objKind[a] = "loop"
                /\ delivered' = [i \in 1 .. n |-> <<a, loops[a].handler, q[i]>>]
                /\ Contents(loops'[a].events) = SubSeq(q, n + 1, Len(q))]_vars

\* process_tasks() dispatched the destination, which handled e1 and then e2
\* with the handler and the limit 2 that were given to the source
C27_Witness ==
  /\ lastOp[1] = "process_tasks"
  /\ runLog = <<2>>
  /\ objKind[1] = "none"
  /\ delivered = <<<<2, "take", "e1">>, <<2, "take", "e2">>>>

\* C28: after an event_loop was moved from, by move construction or by move
\* assignment to another object, the source has an empty queue (size() is 0
\* and empty() is true) and the default no-op handler.
C28_MovedFromIsDefault ==
  [][\A from, to \in TwoLoops :
       (lastOp'[1] \in {"loop_move_ctor", "loop_move_assign"}
          /\ lastOp'[2] = from /\ lastOp'[3] = to /\ from # to) =>
         /\ loops'[from].events.size = 0
         /\ empty(loops'[from].events)
         /\ loops'[from].handler = empty_handler]_vars

\* C29: set_max_events_per_call(n) stores n clamped into
\* [1, max_event_per_call_num]: 0 becomes 1, a count above the cap becomes the
\* cap, a count within the range is stored as given. So max_events_per_call()
\* is within that range in every state and no run() makes more handler calls
\* than the cap.
C29_MaxEventsClamped ==
  /\ [][\A a \in TheLoop :
          (lastOp'[1] = "set_max" /\ lastOp'[2] = a) =>
            LET n == lastOp'[3]
            IN  /\ n = 0 => loops'[a].max_events_per_call = 1
                /\ n > max_event_per_call_num =>
                     loops'[a].max_events_per_call = max_event_per_call_num
                /\ n \in 1 .. max_event_per_call_num =>
                     loops'[a].max_events_per_call = n
                /\ loops'[a].handler = loops[a].handler
                /\ loops'[a].events = loops[a].events]_vars
  /\ [](\A a \in Addr : loops[a].max_events_per_call \in 1 .. max_event_per_call_num)
  /\ [](Len(delivered) <= max_event_per_call_num)

\* a count above the cap was given and the cap was stored
C29_Witness ==
  \E a \in TheLoop :
    /\ lastOp = <<"set_max", a, max_event_per_call_num + 1>>
    /\ loops[a].max_events_per_call = max_event_per_call_num

(***************************************************************************)
(* Properties of the clock                                                 *)
(***************************************************************************)
\* C30: expiry is safe against the wrap-around of the tick counter. For a
\* running timer, has_passed(start, interval) and the timer's own elapsed
\* check are true exactly when interval ticks or more have passed since the
\* start, counted tick by tick whatever the counter's value; so a timer
\* started shortly before the counter wraps to 0 fires exactly interval ticks
\* after its start: not earlier, and it is not left waiting.
C30_WrapSafeExpiry ==
  /\ [][\A h \in Handles :
          (lastOp' = <<"has_passed", h, 0>> /\ timers[hId[h]].active) =>
            ret' = (hist[hId[h]].age >= timers[hId[h]].interval)]_vars
  /\ [](\A i \in TimerSlots :
          (timers[i].registered /\ timers[i].active) =>
            /\ elapsed_for(timers[i].start_point, sys_clock_tick, timers[i].interval)
                 = (hist[i].age >= timers[i].interval)
            /\ Due(timers[i], sys_clock_tick) = (hist[i].age >= timers[i].interval)
            /\ ~hist[i].early
            /\ hist[i].age <= timers[i].interval
            /\ pending = 0 => hist[i].age < timers[i].interval)

\* has_passed() is true for a timer of interval 2 that was started at the
\* last tick before the counter wrapped, now that the counter shows 1
C30_Witness ==
  \E h \in Handles :
    /\ lastOp = <<"has_passed", h, 0>>
    /\ ret
    /\ hId[h] \in TimerSlots
    /\ timers[hId[h]].active
    /\ timers[hId[h]].interval = 2
    /\ timers[hId[h]].start_point = TickMod - 1
    /\ sys_clock_tick = 1

(***************************************************************************)
(* Properties of the scan of process_timers()                              *)
(***************************************************************************)
\* the number of slots the scan inspects before slot i, starting at cursor ci
SlotsBefore(ci, i) == (i - ci) % max_timer_num

\* C31: bounded latency of process_timers(). A slot that is expired when a
\* call begins is fired by that call, or the call fires another slot and
\* leaves the cursor strictly nearer to it; a slot the cursor points at is
\* fired at once; and nothing but process_timers() moves the cursor. The
\* distance is below max_timer_num, so a timer that stays expired is fired
\* within max_timer_num consecutive calls, whatever other timers are expired.
C31_BoundedLatency ==
  [][/\ lastOp'[1] = "process_timers" =>
          \A i \in DueSlots(timers, sys_clock_tick) :
            /\ SlotsBefore(curr_index, i) < max_timer_num
            /\ cbLog' # <<>>
            /\ \/ cbLog' = <<i>>
               \/ SlotsBefore(curr_index', i) < SlotsBefore(curr_index, i)
            /\ SlotsBefore(curr_index, i) = 0 => cbLog' = <<i>>
     /\ lastOp'[1] # "process_timers" => curr_index' = curr_index]_vars

\* a call that fired the timer in slot 1 while the timer in slot 0, fired by
\* the call before, was expired as well
C31_Witness ==
  /\ lastOp[1] = "process_timers"
  /\ cbLog = <<1>>
  /\ dueBefore = {0, 1}
  /\ hist[0].count >= 1
  /\ ~timers[0].single_shot
  /\ ~timers[1].single_shot

(***************************************************************************)
(* Properties of handles that hold no timer                                *)
(***************************************************************************)
\* C32: reads through an invalid handle give default values. For a handle
\* that holds the sentinel id - default-constructed, moved from, unregistered
\* or returned by a failed registration - valid() is false, running() is false
\* and interval() is the zero interval, whatever was done before through this
\* or any other such handle.
C32_InvalidReadsDefault ==
  \A h \in Handles :
    (hLive[h] /\ hId[h] = empty_timer_id) =>
      /\ ~valid(h)
      /\ ~running(h)
      /\ interval(h) = 0

(***************************************************************************)
(* Properties of several timers                                            *)
(***************************************************************************)
\* C33: independent timers. When process_timers() is called max_timer_num
\* times after every tick, every running periodic timer of interval I >= 1
\* fires when exactly I ticks have passed since it was started or last fired,
\* and once: no firing is early, none is still owed when the calls of a tick
\* are done, whatever other timers are registered or expire at the same tick.
C33_IndependentTimers ==
  /\ [](\A i \in TimerSlots :
          (timers[i].registered /\ timers[i].active) =>
            /\ ~hist[i].early
            /\ hist[i].age <= timers[i].interval
            /\ pending = 0 => hist[i].age < timers[i].interval)
  /\ [][lastOp'[1] = "process_timers" =>
          \A k \in 1 .. Len(cbLog') :
            /\ hist[cbLog'[k]].age = timers[cbLog'[k]].interval
            /\ hist'[cbLog'[k]].age = 0]_vars

\* at one tick the timer of interval 1 fired, for the second time at least,
\* and the timer of interval 2 fired
C33_Witness ==
  \E i, j \in TimerSlots :
    /\ lastOp[1] = "process_timers"
    /\ cbLog = <<i>>
    /\ timers[i].active /\ timers[i].interval = 1
    /\ timers[j].active /\ timers[j].interval = 2
    /\ hist[i].age = 0 /\ hist[i].count = 2
    /\ hist[j].age = 0 /\ hist[j].count >= 1

(***************************************************************************)
(* Properties of the persisted cursor of process_timers()                  *)
(***************************************************************************)
\* C34 as stated: every call of process_timers() moves the persisted cursor
\* by exactly one slot, whether or not a timer fired during the call
C34_CursorOneSlot ==
  [][lastOp'[1] = "process_timers" =>
       curr_index' = NextTimerIndex(curr_index)]_vars

\* C34, amended: a call of process_timers() that invokes a callback leaves
\* the persisted cursor one slot past the slot it fired, however many slots it
\* inspected before; a call that fires nothing has inspected every slot and
\* leaves the cursor where it found it
C34_CursorPastFired ==
  [][lastOp'[1] = "process_timers" =>
       IF cbLog' = <<>>
         THEN curr_index' = curr_index
         ELSE /\ Len(cbLog') = 1
              /\ curr_index' = NextTimerIndex(cbLog'[1])]_vars

\* a call that passed over the stopped timer of slot 0, fired slot 1 and left
\* the cursor at slot 0 again
C34_Witness ==
  /\ lastOp[1] = "process_timers"
  /\ cbLog = <<1>>
  /\ dueBefore = {1}
  /\ timers[0].registered /\ ~timers[0].active
  /\ curr_index = NextTimerIndex(1)

(***************************************************************************)
(* Properties of calls that find nothing to dispatch                       *)
(***************************************************************************)
\* C35: idle scans have no side effects. process_tasks() on an empty
\* registry, and process_timers() when no slot is registered, active and
\* expired, read every slot exactly once, call no run() and no callback, and
\* leave every slot and the persisted cursor as they were.
C35_IdleScans ==
  [][/\ (lastOp'[1] = "process_tasks" /\ \A i \in TaskSlots : tasks[i] = NULL) =>
          /\ runLog' = <<>>
          /\ tasks' = tasks
          /\ current_index' = current_index
          /\ Len(tasks_inspected(tasks, current_index, current_index)) = task_max_num
          /\ SeqSet(tasks_inspected(tasks, current_index, current_index)) = TaskSlots
     /\ (/\ lastOp'[1] = "process_timers"
         /\ \A i \in TimerSlots :
              ~(/\ timers[i].registered
                /\ timers[i].active
                /\ elapsed_for(timers[i].start_point, sys_clock_tick,
                               timers[i].interval))) =>
          /\ cbLog' = <<>>
          /\ timers' = timers
          /\ curr_index' = curr_index
          /\ Len(timers_inspected(timers, curr_index, curr_index, sys_clock_tick))
               = max_timer_num
          /\ SeqSet(timers_inspected(timers, curr_index, curr_index, sys_clock_tick))
               = TimerSlots]_vars

\* process_timers() called with the cursor past slot 0, on a pool whose only
\* timer has fired and is stopped, and the registry of tasks empty with its
\* cursor past slot 0 as well
C35_Witness ==
  /\ lastOp[1] = "process_timers"
  /\ cbLog = <<>>
  /\ curr_index # 0
  /\ timers[0].registered /\ ~timers[0].active
  /\ hist[0].count >= 1
  /\ \A i \in TaskSlots : tasks[i] = NULL
  /\ current_index # 0
  /\ runLog = <<>>

(***************************************************************************)
(* Properties of the pool's capacity under single shots                    *)
(***************************************************************************)
RegisteredSlots(tm) == {i \in TimerSlots : tm[i].registered}

\* C36: a single shot frees its slot when it fires. The call of
\* process_timers() that invokes a single shot's callback leaves its slot
\* unregistered and inactive; a registered slot is always a single shot that
\* has not fired yet; and single_shot() succeeds, taking one more slot,
\* whenever a slot is not registered. So once max_timer_num single shots have
\* fired, max_timer_num new registrations succeed.
C36_SingleShotFreesSlot ==
  /\ [](\A i \in RegisteredSlots(timers) :
          /\ timers[i].single_shot
          /\ timers[i].active
          /\ hist[i].count = 0)
  /\ [][/\ lastOp'[1] = "process_timers" =>
            \A k \in 1 .. Len(cbLog') :
              /\ ~timers'[cbLog'[k]].registered
              /\ ~timers'[cbLog'[k]].active
              /\ RegisteredSlots(timers') = RegisteredSlots(timers) \ {cbLog'[k]}
        /\ (lastOp'[1] = "single_shot" /\ RegisteredSlots(timers) # TimerSlots) =>
            /\ ~hookCalled'
            /\ Cardinality(RegisteredSlots(timers')) = Cardinality(RegisteredSlots(timers)) + 1
            /\ RegisteredSlots(timers) \subseteq RegisteredSlots(timers')]_vars

\* the pool is full of single shots again, every slot of it having fired a
\* single shot before (a firing is what wrote the slot's start point)
C36_Witness ==
  /\ lastOp[1] = "single_shot"
  /\ ~hookCalled
  /\ RegisteredSlots(timers) = TimerSlots
  /\ \A i \in TimerSlots : timers[i].start_point # 0 /\ hist[i].count = 0

(***************************************************************************)
(* Properties of the scan of process_tasks() under a changing registry     *)
(***************************************************************************)
\* the number of slots the scan reads before slot s, starting at cursor ci
TaskSlotsBefore(ci, s) == (s - ci) % task_max_num

\* C37: bounded dispatch latency under a changing registry. Only
\* process_tasks() moves the cursor. A registered task keeps its slot for as
\* long as it is registered: a step leaves an occupied slot alone, empties it,
\* or, moving the task, repoints it to the task's new address. And a call of
\* process_tasks() runs the task of an occupied slot, or runs another one and
\* leaves the cursor strictly nearer to that slot; the task the cursor points
\* at runs at once. The distance is below task_max_num, so a task that stays
\* registered runs within task_max_num consecutive calls, whatever is
\* registered, unregistered or moved between or during them.
C37_LatencyChangingRegistry ==
  [][/\ lastOp'[1] # "process_tasks" => current_index' = current_index
     /\ \A s \in Occupied(tasks) :
          /\ \/ tasks'[s] \in {tasks[s], NULL}
             \/ /\ lastOp'[1] \in {"move_ctor", "move_assign"}
                /\ lastOp'[2] = tasks[s]
                /\ tasks'[s] = lastOp'[3]
          /\ lastOp'[1] = "process_tasks" =>
               /\ TaskSlotsBefore(current_index, s) < task_max_num
               /\ runLog' # <<>>
               /\ \/ runLog' = <<tasks[s]>>
                  \/ TaskSlotsBefore(current_index', s)
                       < TaskSlotsBefore(current_index, s)
               /\ TaskSlotsBefore(current_index, s) = 0 =>
                    runLog' = <<tasks[s]>>]_vars

\* the task of slot 1 ran in the first call after a change of the registry,
\* with slot 0 occupied as well, the cursor past slot 0 from an earlier call,
\* and a task object moved from
C37_Witness ==
  /\ lastOp[1] = "process_tasks"
  /\ tasks[0] # NULL /\ tasks[1] # NULL /\ tasks[0] # tasks[1]
  /\ objKind[tasks[0]] = "task"
  /\ \E a \in Addr : objKind[a] = "task" /\ objMoved[a]
  /\ runLog = <<tasks[1]>>
  /\ recent = <<tasks[1]>>
  /\ current_index = NextIndex(1)

(***************************************************************************)
(* Properties of single shots armed from callbacks                         *)
(***************************************************************************)
ArmedShot(t) == t.registered /\ t.active /\ t.single_shot

\* C38: a single shot that was accepted is never discarded without firing.
\* When a callback calls single_shot() and the call returns true, the slot it
\* took is a registered, active single shot when process_timers() returns -
\* also when the callback is a periodic timer's that unregistered its own
\* handle first; and from then on only the call of process_timers() that
\* invokes its callback takes it out of the pool.
C38_ShotNeverDiscarded ==
  [][/\ (/\ lastOp'[1] = "process_timers"
         /\ lastOp'[2] = 1
         /\ lastOp'[3] # empty_timer_id) =>
          ArmedShot(timers'[lastOp'[3]])
     /\ \A i \in TimerSlots :
          (ArmedShot(timers[i]) /\ ~ArmedShot(timers'[i])) =>
            /\ lastOp'[1] = "process_timers"
            /\ cbLog' = <<i>>]_vars

(***************************************************************************)
(* Properties of circular_buffer                                           *)
(***************************************************************************)
\* C39: the representation invariant of circular_buffer. In every buffer,
\* after any sequence of push_back, push_front, pop_front, pop_back,
\* push_over, clear and moves, in the source of a move as in its destination,
\* the distance from first_ to last_ modulo the capacity is size() modulo the
\* capacity; and a push of x into an empty buffer, a moved-from one included,
\* makes front() return x.
C39_RepInvariant ==
  /\ [](\A a \in TwoBuffers :
          (buffers[a].last - buffers[a].first) % EventQueueSize
            = buffers[a].size % EventQueueSize)
  /\ [][\A a \in TwoBuffers :
          (/\ lastOp'[1] \in {"push_back", "push_front", "push_over"}
           /\ lastOp'[2] = a
           /\ empty(buffers[a])) =>
            front(buffers'[a]) = arg']_vars

(***************************************************************************)
(* Properties of periodic timers under a late driver                       *)
(***************************************************************************)
\* C40: minimum spacing of periodic firings. However late process_timers()
\* is called, a periodic timer that is started once and whose interval is not
\* changed never fires before interval ticks have passed since it was started
\* or last fired; the firing re-arms it from the current tick, so it stays
\* registered and running and is not due again at that tick: a late firing
\* moves every later due tick and is not followed by a burst.
C40_MinimumSpacing ==
  /\ [](\A i \in TimerSlots : timers[i].registered => ~hist[i].early)
  /\ [][lastOp'[1] = "process_timers" =>
          \A k \in 1 .. Len(cbLog') :
            LET i == cbLog'[k]
            IN  /\ hist[i].age >= timers[i].interval
                /\ hist'[i].age = 0
                /\ timers'[i].start_point = sys_clock_tick
                /\ timers'[i].registered /\ timers'[i].active
                /\ timers'[i].interval = timers[i].interval
                /\ ~Due(timers'[i], sys_clock_tick)]_vars

\* a timer of interval 1 fired for the second time, at least one tick late
C40_Witness ==
  \E i \in TimerSlots :
    /\ lastOp[1] = "process_timers"
    /\ lastOp[2] >= 1
    /\ cbLog = <<i>>
    /\ timers[i].interval = 1
    /\ hist[i].count = 2

=============================================================================
